---- MODULE Spec2Model ----
(***************************************************************************)
(* Model of the DICOM cataloging engine (db_handler.py) and of the path   *)
(* resolution of the viewer (dicom_viewer.py).                            *)
(*                                                                         *)
(* Strings are sequences of one-character strings, so that str.strip(),   *)
(* concatenation and str.startswith() are computed, not assumed.          *)
(* A DICOM element value is a record: [kind |-> "None"],                  *)
(* [kind |-> "str", val |-> <<chars>>] or                                  *)
(* [kind |-> "multi", vals |-> <<values>>].                                *)
(* A dataset is a function from tag names to values; a tag outside its    *)
(* DOMAIN is absent (ds.get returns the default, ds.Tag raises             *)
(* AttributeError).                                                        *)
(***************************************************************************)
EXTENDS Integers, Sequences, FiniteSets, TLC

\* ------------------------------------------------------------------ bounds
\* Total number of save_metadata calls in one behaviour.
MaxCalls == 3

\* The threads that run save_metadata (pynetdicom runs one handler thread per
\* association; all share the one global connection).
Workers == {1, 2}

\* ------------------------------------------------------------ string helpers
Whitespace == {" ", "\t", "\n"}

SetMin(S) == CHOOSE x \in S : \A y \in S : x <= y

SetMax(S) == CHOOSE x \in S : \A y \in S : x >= y

\* str.strip(): drop leading and trailing whitespace.
Strip(s) ==
    LET keep == {i \in 1..Len(s) : s[i] \notin Whitespace}
    IN  IF keep = {} THEN <<>> ELSE SubSeq(s, SetMin(keep), SetMax(keep))

NoneVal == [kind |-> "None"]

Str(s) == [kind |-> "str", val |-> s]

Multi(vs) == [kind |-> "multi", vals |-> vs]

\* Numbers as values: a Python int, a finite float held as twice its value,
\* and the floats infinity and not-a-number.
IntVal(n) == [kind |-> "num", val |-> n]

FloatVal(twice) == [kind |-> "float", val |-> twice]

InfVal == [kind |-> "inf"]

NanVal == [kind |-> "nan"]

DigitChars == <<"0", "1", "2", "3", "4", "5", "6", "7", "8", "9">>

\* str(n) of an int
RECURSIVE FormatNat(_)
FormatNat(n) ==
    IF n < 10 THEN <<DigitChars[n + 1]>>
    ELSE FormatNat(n \div 10) \o <<DigitChars[(n % 10) + 1]>>

FormatInt(n) == IF n < 0 THEN <<"-">> \o FormatNat(0 - n) ELSE FormatNat(n)

\* str(x) of a finite float that is a multiple of one half
FormatFloat(twice) ==
    LET mag == IF twice < 0 THEN 0 - twice ELSE twice
    IN  (IF twice < 0 THEN <<"-">> ELSE <<>>)
            \o FormatNat(mag \div 2)
            \o (IF mag % 2 = 0 THEN <<".", "0">> ELSE <<".", "5">>)

\* str(value) of a scalar element value.
PyStr(v) ==
    IF v.kind = "str" THEN v.val
    ELSE IF v.kind = "num" THEN FormatInt(v.val)
    ELSE IF v.kind = "float" THEN FormatFloat(v.val)
    ELSE IF v.kind = "inf" THEN <<"i", "n", "f">>
    ELSE IF v.kind = "nan" THEN <<"n", "a", "n">>
    ELSE <<"N", "o", "n", "e">>

\* db_handler.get_str
get_str(value) ==
    IF value.kind = "None" THEN <<>>
    ELSE IF value.kind = "multi"
         THEN (IF Len(value.vals) > 0 THEN Strip(PyStr(value.vals[1])) ELSE <<>>)
         ELSE Strip(PyStr(value))

\* Dataset.get(tag, default)
Get(ds, tag, default) == IF tag \in DOMAIN ds THEN ds[tag] ELSE default

\* Attribute access ds.Tag is defined only for a present tag.
HasAttr(ds, tag) == tag \in DOMAIN ds

UNKNOWN_PATIENT == <<"U","N","K","N","O","W","N","_","P","A","T","I","E","N","T","_">>

UNKNOWN_STUDY == <<"U","N","K","N","O","W","N","_","S","T","U","D","Y","_">>

UNKNOWN_SERIES == <<"U","N","K","N","O","W","N","_","S","E","R","I","E","S","_">>

\* ------------------------------------------------------------- stored files
\* The files save_metadata can be called on: path relative to the storage
\* root, state of the file on disk and the dataset dcmread returns for it.
\* Files 1 to 5 lie where handle_store writes their datasets.
DsFull(pid, stuid, seuid, sop, acc) ==
    [PatientID |-> pid, StudyInstanceUID |-> stuid, SeriesInstanceUID |-> seuid,
     SOPInstanceUID |-> sop, AccessionNumber |-> acc]

DsNoSop == [PatientID |-> Str(<<>>), StudyInstanceUID |-> Str(<<"S","1">>),
            SeriesInstanceUID |-> Str(<<"E","1">>),
            AccessionNumber |-> Str(<<"A","1">>)]

DsNoPid == [StudyInstanceUID |-> Str(<<"S","1">>),
            SeriesInstanceUID |-> Str(<<"E","1">>),
            SOPInstanceUID |-> Str(<<"1",".","4">>),
            AccessionNumber |-> Str(<<"A","1">>)]

Files ==
    <<  \* 1: a complete dataset
        [path |-> <<"A","1","/","1",".","1",".","d","c","m">>, disk |-> "ok",
         ds |-> DsFull(Str(<<"P","1">>), Str(<<"S","1">>), Str(<<"E","1">>),
                       Str(<<"1",".","1">>), Str(<<"A","1">>))],
        \* 2: same patient (padded id), study and series; empty AccessionNumber
        [path |-> <<"1",".","2","/","1",".","2",".","d","c","m">>, disk |-> "ok",
         ds |-> DsFull(Str(<<"P","1"," ">>), Str(<<"S","1">>), Str(<<"E","1">>),
                       Str(<<"1",".","2">>), Str(<<>>))],
        \* 3: empty PatientID, StudyInstanceUID, SeriesInstanceUID, AccessionNumber
        [path |-> <<"1",".","3","/","1",".","3",".","d","c","m">>, disk |-> "ok",
         ds |-> DsFull(Str(<<>>), Str(<<>>), Str(<<>>),
                       Str(<<"1",".","3">>), Str(<<>>))],
        \* 4: PatientID absent, study and series of file 1
        [path |-> <<"A","1","/","1",".","4",".","d","c","m">>, disk |-> "ok", ds |-> DsNoPid],
        \* 5: SOPInstanceUID present but empty, everything else valid
        [path |-> <<"A","1","/",".","d","c","m">>, disk |-> "ok",
         ds |-> DsFull(Str(<<"P","1">>), Str(<<"S","1">>), Str(<<"E","1">>),
                       Str(<<>>), Str(<<"A","1">>))],
        \* 6: SOPInstanceUID absent and PatientID empty
        [path |-> <<"A","1","/","6">>, disk |-> "ok", ds |-> DsNoSop],
        \* 7: no file at this path
        [path |-> <<"A","1","/","7">>, disk |-> "missing", ds |-> DsNoSop],
        \* 8: a file that is not DICOM
        [path |-> <<"A","1","/","8">>, disk |-> "invalid", ds |-> DsNoSop]
    >>

FileIds == 1..Len(Files)

VARIABLES
    patient, study, series, image,  \* the four tables: sets of rows
    serial,                         \* next value of each table's prkey sequence
    pc, file,                       \* per worker: position in save_metadata, its argument (index in Files, 0: none)
    pkey, skey, sekey,              \* per worker: patient_prkey, study_prkey, series_prkey
    curBound,                       \* per worker: the local `cur` has been assigned
    outcome,                        \* per worker: how the call ended
    stmts,                          \* per worker: the statements the call executed
    failedAt,                       \* per worker: the step whose code raised
    inserted,                       \* per worker: rows the call inserted
    prior,                          \* per worker: earlier successful result for the same file
    completed,                      \* per file: keys of the last successful call
    calls                           \* number of calls started

\* One request to image_data or image_metadata (dicom_viewer.py).
VARIABLES
    vpc,        \* position in the handler
    ventry,     \* "image_data" or "image_metadata"
    vref,       \* filename_from_db
    vpath,      \* full_dicom_path
    vresp,      \* HTTP status of the response, 0 while there is none
    vlog        \* what the handler has done with the path so far, in order

\* One SCP thread per worker running handle_store (dicom_server.py) on top
\* of save_metadata.
VARIABLES
    spc,        \* per worker: position in handle_store
    sfile,      \* per worker: the received dataset (index in Files, 0: none)
    sresult,    \* per worker: what the last handle_store call returned
    safter,     \* per worker: the current request began after a failed one
    sdisk,      \* relative paths of the files written by save_as
    sfailed     \* some store request has failed

\* One handle_store call of a single association, cataloging left to its
\* outcome.
VARIABLES
    lpc,        \* position in handle_store
    lds,        \* event.dataset
    ldir,       \* accession_number_safe, once determined
    lmade,      \* directories created by os.makedirs
    lwritten,   \* files written by save_as
    lstatus     \* the returned status, -1 while there is none

\* One request to image_data or image_metadata from dcmread on: the pixel
\* pipeline.
VARIABLES
    ppc,        \* position in the handler
    pentry,     \* "image_data" or "image_metadata"
    pds,        \* the dataset dcmread returned
    pargs,      \* request.args: wl, ww, enhance
    parr,       \* pixel_array_orig / pixel_array_processed / pixel_array_for_minmax
    pwin,       \* wl and ww once determined
    presp,      \* the response
    plog        \* the stages run so far, in order

\* The helper functions of db_handler, called on a value
VARIABLES
    hpc,        \* "idle", "called", "returned"
    hfn,        \* the function called
    hval,       \* its argument
    hout        \* what it returned, or the exception that left it

\* The folder watcher beside the store handler's threads
VARIABLES
    wreq,       \* each store request: its position and its study folder
    wdisk,      \* each folder of received_dicom: "absent", "empty", "dcm"
    wqueue,     \* the creation events the observer has not dispatched yet
    wpc,        \* the position of on_created and the folder it handles
    wdone,      \* the folders with a marker in _processed
    wruns       \* how often run_segmentation was invoked on each folder

tables == <<patient, study, series, image, serial>>

locals == <<pc, file, pkey, skey, sekey, curBound, outcome, stmts, failedAt, inserted, prior>>

catalogVars == <<patient, study, series, image, serial, pc, file, pkey, skey, sekey,
                 curBound, outcome, stmts, failedAt, inserted, prior, completed, calls>>

viewerVars == <<vpc, ventry, vref, vpath, vresp, vlog>>

storeVars == <<spc, sfile, sresult, safter, sdisk, sfailed>>

layoutVars == <<lpc, lds, ldir, lmade, lwritten, lstatus>>

pixelVars == <<ppc, pentry, pds, pargs, parr, pwin, presp, plog>>

helperVars == <<hpc, hfn, hval, hout>>

watcherVars == <<wreq, wdisk, wqueue, wpc, wdone, wruns>>

\* The variables of the components beside the catalog, the store handler
\* and the viewer.
sideVars == <<helperVars, watcherVars>>

renderVars == <<viewerVars, pixelVars>>

\* What the catalog actions leave alone, and what the path actions of the
\* viewer do.
otherVars == <<renderVars, storeVars, layoutVars, sideVars>>

backendVars == <<catalogVars, storeVars, layoutVars, pixelVars, sideVars>>

vars == <<catalogVars, viewerVars, storeVars, layoutVars, pixelVars, sideVars>>

Ds(w) == Files[file[w]].ds

Path(w) == Files[file[w]].path

NoResult == [ok |-> FALSE, p |-> 0, s |-> 0, e |-> 0]

InitViewer ==
    /\ vpc = "idle"
    /\ ventry = "none"
    /\ vref = <<>>
    /\ vpath = <<>>
    /\ vresp = 0
    /\ vlog = <<>>

NoStatus == [status |-> -1, escaped |-> "none", wrote |-> FALSE]

InitStore ==
    /\ spc = [w \in Workers |-> "idle"]
    /\ sfile = [w \in Workers |-> 0]
    /\ sresult = [w \in Workers |-> NoStatus]
    /\ safter = [w \in Workers |-> FALSE]
    /\ sdisk = {}
    /\ sfailed = FALSE

InitLayout ==
    /\ lpc = "idle"
    /\ lds = <<>>
    /\ ldir = [chosen |-> FALSE, name |-> <<>>]
    /\ lmade = {}
    /\ lwritten = {}
    /\ lstatus = -1

NoArray == [shape |-> <<>>, vals |-> <<>>]

NoWindow == [wl |-> 0, ww |-> 0]

NoResponse ==
    [status |-> 0, img |-> [mode |-> "none", shape |-> <<>>, vals |-> <<>>],
     wl |-> 0, ww |-> 0]

NoArgs ==
    [wl |-> [present |-> FALSE, text |-> <<>>],
     ww |-> [present |-> FALSE, text |-> <<>>],
     enhance |-> [present |-> FALSE, text |-> <<>>]]

InitPixel ==
    /\ ppc = "idle"
    /\ pentry = "none"
    /\ pds = <<>>
    /\ pargs = NoArgs
    /\ parr = NoArray
    /\ pwin = NoWindow
    /\ presp = NoResponse
    /\ plog = <<>>

NoOutcome == [exc |-> "none", val |-> <<>>]

InitHelper ==
    /\ hpc = "idle"
    /\ hfn = "none"
    /\ hval = NoneVal
    /\ hout = NoOutcome

\* The folders a study can be stored in, and the store requests that run
\* beside each other.
Folders == {"A1", "B2"}

MaxRequests == 2

Requests == 1..MaxRequests

InitWatcher ==
    /\ wreq = [r \in Requests |-> [pc |-> "idle", dir |-> "none"]]
    /\ wdisk = [d \in Folders |-> "absent"]
    /\ wqueue = <<>>
    /\ wpc = [at |-> "idle", folder |-> "none"]
    /\ wdone = {}
    /\ wruns = [d \in Folders |-> 0]

Init ==
    /\ InitViewer
    /\ InitPixel
    /\ InitHelper
    /\ InitWatcher
    /\ InitStore
    /\ InitLayout
    /\ patient = {} /\ study = {} /\ series = {} /\ image = {}
    /\ serial = [patient |-> 1, study |-> 1, series |-> 1, image |-> 1]
    /\ pc = [w \in Workers |-> "idle"]
    /\ file = [w \in Workers |-> 0]
    /\ pkey = [w \in Workers |-> 0]
    /\ skey = [w \in Workers |-> 0]
    /\ sekey = [w \in Workers |-> 0]
    /\ curBound = [w \in Workers |-> FALSE]
    /\ outcome = [w \in Workers |-> "none"]
    /\ stmts = [w \in Workers |-> <<>>]
    /\ failedAt = [w \in Workers |-> "none"]
    /\ inserted = [w \in Workers |-> 0]
    /\ prior = [w \in Workers |-> NoResult]
    /\ completed = [f \in FileIds |-> NoResult]
    /\ calls = 0


\* ------------------------------------------------------------- record store
\* The rows a SELECT ... WHERE col = key returns.
Select(table, col, key) == {r \in table : r[col] = key}

\* cur.fetchone()[0] of a non-empty result.
FetchOne(rows, keycol) == (CHOOSE r \in rows : TRUE)[keycol]

\* The store's uniqueness constraint on a natural-key column: an INSERT of a
\* key that is already present raises UniqueViolation.
UniqueViolation(table, col, key) == \E r \in table : r[col] = key

\* nextval of a table's prkey sequence is consumed by every INSERT attempt.
NextSerial(tbl) == [serial EXCEPT ![tbl] = @ + 1]

\* ------------------------------------------------------- natural keys, rows
EmptyStr(s) == Len(s) = 0

\* get_or_create_patient: the natural key (with fallback), lines 78-80.
PatientKeyRaises(ds) ==
    EmptyStr(get_str(Get(ds, "PatientID", NoneVal))) /\ ~HasAttr(ds, "SOPInstanceUID")
\* Mutant: the fallback key lacks the SOPInstanceUID.
PatientKeyNoSop(ds) ==
    LET patient_id == get_str(Get(ds, "PatientID", NoneVal))
    IN  IF EmptyStr(patient_id) THEN UNKNOWN_PATIENT ELSE patient_id


PatientKey(ds) ==
    LET patient_id == get_str(Get(ds, "PatientID", NoneVal))
    IN  IF EmptyStr(patient_id)
        THEN UNKNOWN_PATIENT \o PyStr(ds["SOPInstanceUID"])
        ELSE patient_id

\* get_or_create_study: the natural key (with fallback), lines 109-111.
StudyKeyRaises(ds) ==
    EmptyStr(get_str(Get(ds, "StudyInstanceUID", NoneVal))) /\ ~HasAttr(ds, "SOPInstanceUID")

StudyKey(ds) ==
    LET study_instance_uid == get_str(Get(ds, "StudyInstanceUID", NoneVal))
    IN  IF EmptyStr(study_instance_uid)
        THEN UNKNOWN_STUDY \o PyStr(ds["SOPInstanceUID"])
        ELSE study_instance_uid

\* get_or_create_series: the natural key (with fallback), lines 171-173.
SeriesKeyRaises(ds) ==
    EmptyStr(get_str(Get(ds, "SeriesInstanceUID", NoneVal))) /\ ~HasAttr(ds, "SOPInstanceUID")

SeriesKey(ds) ==
    LET series_instance_uid == get_str(Get(ds, "SeriesInstanceUID", NoneVal))
    IN  IF EmptyStr(series_instance_uid)
        THEN UNKNOWN_SERIES \o PyStr(ds["SOPInstanceUID"])
        ELSE series_instance_uid

\* save_image_metadata: the natural key, no fallback, line 234.
ImageKey(ds) == get_str(Get(ds, "SOPInstanceUID", NoneVal))
\* Mutant: the row stores the raw PatientID, not the key that was looked up.
PatientRowRawId(ds, path, prkey) ==
    [patient_prkey |-> prkey,
     patient_id    |-> get_str(Get(ds, "PatientID", NoneVal)),
     patient_path  |-> get_str(Str(path))]

\* The row get_or_create_patient inserts, lines 91-101.
PatientRow(ds, path, prkey) ==
    [patient_prkey |-> prkey,
     patient_id    |-> PatientKey(ds),
     patient_path  |-> get_str(Str(path))]
\* Mutant: no AccessionNumber fallback.
AccessionRaw(ds) == get_str(Get(ds, "AccessionNumber", NoneVal))

\* The AccessionNumber fallback of get_or_create_study, lines 129-131.
AccessionOf(ds) ==
    LET accession_number == get_str(Get(ds, "AccessionNumber", NoneVal))
    IN  IF EmptyStr(accession_number) THEN StudyKey(ds) ELSE accession_number

\* Mutant: the Study row is inserted with the key of no patient.
StudyRowNoPatient(ds, path, patient_prkey, prkey) ==
    [study_prkey        |-> prkey,
     study_instance_uid |-> StudyKey(ds),
     accession_number   |-> AccessionOf(ds),
     study_path         |-> get_str(Str(path)),
     patient_prkey      |-> 0,
     study_status       |-> 0,
     study_token        |-> "none"]

\* The row get_or_create_study inserts, lines 123-163.
StudyRow(ds, path, patient_prkey, prkey) ==
    [study_prkey        |-> prkey,
     study_instance_uid |-> StudyKey(ds),
     accession_number   |-> AccessionOf(ds),
     study_path         |-> get_str(Str(path)),
     patient_prkey      |-> patient_prkey,
     study_status       |-> 0,
     study_token        |-> "none"]

\* Mutant: the localizer is left empty.
SeriesRowNoLocalizer(ds, path, study_prkey, prkey) ==
    [series_prkey           |-> prkey,
     series_instance_uid    |-> SeriesKey(ds),
     localizer_instance_uid |-> <<>>,
     study_instance_uid     |-> get_str(Get(ds, "StudyInstanceUID", NoneVal)),
     series_path            |-> get_str(Str(path)),
     study_prkey            |-> study_prkey]

\* The row get_or_create_series inserts, lines 185-226.
SeriesRow(ds, path, study_prkey, prkey) ==
    [series_prkey           |-> prkey,
     series_instance_uid    |-> SeriesKey(ds),
     localizer_instance_uid |-> get_str(Get(ds, "SOPInstanceUID", NoneVal)),
     study_instance_uid     |-> get_str(Get(ds, "StudyInstanceUID", NoneVal)),
     series_path            |-> get_str(Str(path)),
     study_prkey            |-> study_prkey]

\* The row save_image_metadata inserts, lines 248-279 (ds.Path is the
\* relative path save_metadata was called with, line 299).
ImageRow(ds, path, series_prkey, prkey) ==
    [image_prkey     |-> prkey,
     sop_instance_uid |-> ImageKey(ds),
     image_path_name |-> get_str(Str(path)),
     patient_id      |-> get_str(Get(ds, "PatientID", NoneVal)),
     series_prkey    |-> series_prkey]


\* ------------------------------------------------------------ save_metadata
\* `finally: if cur: cur.close()` (line 315): `cur` is a local of save_metadata,
\* so reading it before `cur = conn.cursor()` ran raises UnboundLocalError, which
\* replaces the exception in flight.
Finally(bound, exc) == IF bound THEN exc ELSE "UnboundLocalError"
\* Mutant: each step's exception is logged and the chain goes on.
AfterRaiseContinue(step) ==
    IF step = "read" THEN "patient"
    ELSE IF step = "patient" THEN "study"
    ELSE IF step = "study" THEN "series"
    ELSE IF step = "series" THEN "image"
    ELSE "done"

\* Where control goes when a step raises: both except clauses re-raise
\* (lines 308-313), so the call ends.
AfterRaise(step) == "done"

Steps == <<"read", "patient", "study", "series", "image">>

StepRanks == [s \in {Steps[i] : i \in DOMAIN Steps} |->
                 CHOOSE i \in DOMAIN Steps : Steps[i] = s]

StepRank(step) == StepRanks[step]

\* A thread enters save_metadata (its previous call, if any, has returned)
\* and runs it up to `cur = conn.cursor()`, lines 286-300.
Call(w, f) ==
    /\ pc[w] \in {"idle", "done"}
    /\ calls < MaxCalls
    /\ calls' = calls + 1
    /\ file' = [file EXCEPT ![w] = f]
    /\ prior' = [prior EXCEPT ![w] = completed[f]]
    /\ stmts' = [stmts EXCEPT ![w] = <<>>]
    /\ inserted' = [inserted EXCEPT ![w] = 0]
    /\ IF Files[f].disk = "ok"
       THEN /\ curBound' = [curBound EXCEPT ![w] = TRUE]
            /\ pc' = [pc EXCEPT ![w] = "patient"]
            /\ outcome' = [outcome EXCEPT ![w] = "none"]
            /\ failedAt' = [failedAt EXCEPT ![w] = "none"]
       ELSE /\ curBound' = [curBound EXCEPT ![w] = FALSE]
            /\ pc' = [pc EXCEPT ![w] = AfterRaise("read")]
            /\ failedAt' = [failedAt EXCEPT ![w] = "read"]
            /\ outcome' = [outcome EXCEPT ![w] =
                   Finally(FALSE,
                           IF Files[f].disk = "missing" THEN "FileNotFoundError"
                                                        ELSE "InvalidDicomError")]
    /\ pkey' = [pkey EXCEPT ![w] = 0]
    /\ skey' = [skey EXCEPT ![w] = 0]
    /\ sekey' = [sekey EXCEPT ![w] = 0]
    /\ UNCHANGED <<tables, completed>>
    /\ UNCHANGED otherVars

\* A step of the call raises exc: save_metadata re-raises it after `finally`.
Raise(w, step, exc) ==
    /\ pc' = [pc EXCEPT ![w] = AfterRaise(step)]
    /\ failedAt' = [failedAt EXCEPT ![w] = step]
    /\ outcome' = [outcome EXCEPT ![w] = Finally(curBound[w], exc)]

Log(w, tbl, kind) == stmts' = [stmts EXCEPT ![w] = Append(@, <<tbl, kind>>)]
\* Mutant: the hit branch refreshes the found Study row's AccessionNumber
\* from the current dataset.
OnHitRefresh(tbl, col, key, ds) ==
    {IF r[col] = key /\ "accession_number" \in DOMAIN r
     THEN [r EXCEPT !.accession_number =
              IF EmptyStr(get_str(Get(ds, "AccessionNumber", NoneVal)))
              THEN key ELSE get_str(Get(ds, "AccessionNumber", NoneVal))]
     ELSE r : r \in tbl}

\* What the hit branch of a get-or-create does to the table: nothing
\* (lines 86-88, 117-119, 179-181, 243-245).
OnHit(tbl, col, key, ds) == tbl

\* get_or_create_patient up to the SELECT, lines 78-88.
PatientSelect(w) ==
    /\ pc[w] = "patient"
    /\ IF PatientKeyRaises(Ds(w))
       THEN /\ Raise(w, "patient", "AttributeError")
            /\ UNCHANGED <<patient, stmts, pkey>>
       ELSE LET hit == Select(patient, "patient_id", PatientKey(Ds(w))) IN
            /\ Log(w, "patient", "select")
            /\ IF hit # {}
               THEN /\ pkey' = [pkey EXCEPT ![w] = FetchOne(hit, "patient_prkey")]
                    /\ patient' = OnHit(patient, "patient_id", PatientKey(Ds(w)), Ds(w))
                    /\ pc' = [pc EXCEPT ![w] = "study"]
               ELSE /\ pc' = [pc EXCEPT ![w] = "patient_insert"]
                    /\ UNCHANGED <<pkey, patient>>
            /\ UNCHANGED <<outcome, failedAt>>
    /\ UNCHANGED <<study, series, image, serial, file, skey, sekey, curBound,
                   inserted, prior, completed, calls>>
    /\ UNCHANGED otherVars

\* get_or_create_patient: the INSERT, lines 90-102.
PatientInsert(w) ==
    /\ pc[w] = "patient_insert"
    /\ Log(w, "patient", "insert")
    /\ serial' = NextSerial("patient")
    /\ IF UniqueViolation(patient, "patient_id", PatientKey(Ds(w)))
       THEN /\ Raise(w, "patient", "UniqueViolation")
            /\ UNCHANGED <<patient, pkey, inserted>>
       ELSE /\ patient' = patient \cup {PatientRow(Ds(w), Path(w), serial.patient)}
            /\ pkey' = [pkey EXCEPT ![w] = serial.patient]
            /\ inserted' = [inserted EXCEPT ![w] = @ + 1]
            /\ pc' = [pc EXCEPT ![w] = "study"]
            /\ UNCHANGED <<outcome, failedAt>>
    /\ UNCHANGED <<study, series, image, file, skey, sekey, curBound,
                   prior, completed, calls>>
    /\ UNCHANGED otherVars

\* get_or_create_study up to the SELECT, lines 109-119.
StudySelect(w) ==
    /\ pc[w] = "study"
    /\ IF StudyKeyRaises(Ds(w))
       THEN /\ Raise(w, "study", "AttributeError")
            /\ UNCHANGED <<study, stmts, skey>>
       ELSE LET hit == Select(study, "study_instance_uid", StudyKey(Ds(w))) IN
            /\ Log(w, "study", "select")
            /\ IF hit # {}
               THEN /\ skey' = [skey EXCEPT ![w] = FetchOne(hit, "study_prkey")]
                    /\ study' = OnHit(study, "study_instance_uid", StudyKey(Ds(w)), Ds(w))
                    /\ pc' = [pc EXCEPT ![w] = "series"]
               ELSE /\ pc' = [pc EXCEPT ![w] = "study_insert"]
                    /\ UNCHANGED <<skey, study>>
            /\ UNCHANGED <<outcome, failedAt>>
    /\ UNCHANGED <<patient, series, image, serial, file, pkey, sekey, curBound,
                   inserted, prior, completed, calls>>
    /\ UNCHANGED otherVars

\* get_or_create_study: the INSERT, lines 121-164.
StudyInsert(w) ==
    /\ pc[w] = "study_insert"
    /\ Log(w, "study", "insert")
    /\ serial' = NextSerial("study")
    /\ IF UniqueViolation(study, "study_instance_uid", StudyKey(Ds(w)))
       THEN /\ Raise(w, "study", "UniqueViolation")
            /\ UNCHANGED <<study, skey, inserted>>
       ELSE /\ study' = study \cup {StudyRow(Ds(w), Path(w), pkey[w], serial.study)}
            /\ skey' = [skey EXCEPT ![w] = serial.study]
            /\ inserted' = [inserted EXCEPT ![w] = @ + 1]
            /\ pc' = [pc EXCEPT ![w] = "series"]
            /\ UNCHANGED <<outcome, failedAt>>
    /\ UNCHANGED <<patient, series, image, file, pkey, sekey, curBound,
                   prior, completed, calls>>
    /\ UNCHANGED otherVars

\* get_or_create_series up to the SELECT, lines 171-181.
SeriesSelect(w) ==
    /\ pc[w] = "series"
    /\ IF SeriesKeyRaises(Ds(w))
       THEN /\ Raise(w, "series", "AttributeError")
            /\ UNCHANGED <<series, stmts, sekey>>
       ELSE LET hit == Select(series, "series_instance_uid", SeriesKey(Ds(w))) IN
            /\ Log(w, "series", "select")
            /\ IF hit # {}
               THEN /\ sekey' = [sekey EXCEPT ![w] = FetchOne(hit, "series_prkey")]
                    /\ series' = OnHit(series, "series_instance_uid", SeriesKey(Ds(w)), Ds(w))
                    /\ pc' = [pc EXCEPT ![w] = "image"]
               ELSE /\ pc' = [pc EXCEPT ![w] = "series_insert"]
                    /\ UNCHANGED <<sekey, series>>
            /\ UNCHANGED <<outcome, failedAt>>
    /\ UNCHANGED <<patient, study, image, serial, file, pkey, skey, curBound,
                   inserted, prior, completed, calls>>
    /\ UNCHANGED otherVars

\* get_or_create_series: the INSERT, lines 183-227.
SeriesInsert(w) ==
    /\ pc[w] = "series_insert"
    /\ Log(w, "series", "insert")
    /\ serial' = NextSerial("series")
    /\ IF UniqueViolation(series, "series_instance_uid", SeriesKey(Ds(w)))
       THEN /\ Raise(w, "series", "UniqueViolation")
            /\ UNCHANGED <<series, sekey, inserted>>
       ELSE /\ series' = series \cup {SeriesRow(Ds(w), Path(w), skey[w], serial.series)}
            /\ sekey' = [sekey EXCEPT ![w] = serial.series]
            /\ inserted' = [inserted EXCEPT ![w] = @ + 1]
            /\ pc' = [pc EXCEPT ![w] = "image"]
            /\ UNCHANGED <<outcome, failedAt>>
    /\ UNCHANGED <<patient, study, image, file, pkey, skey, curBound,
                   prior, completed, calls>>
    /\ UNCHANGED otherVars

\* The call returns normally: line 307, then `finally`. The keys it resolved
\* are remembered for the file.
Succeed(w) ==
    /\ pc' = [pc EXCEPT ![w] = "done"]
    /\ outcome' = [outcome EXCEPT ![w] = "ok"]
    /\ completed' = [completed EXCEPT ![file[w]] =
                         [ok |-> TRUE, p |-> pkey[w], s |-> skey[w], e |-> sekey[w]]]
    /\ UNCHANGED failedAt
\* Mutant: no duplicate check before the INSERT.
ImageExistsNever(ds) == FALSE

\* The duplicate check of save_image_metadata, lines 240-245.
ImageExists(ds) == Select(image, "sop_instance_uid", ImageKey(ds)) # {}

\* save_image_metadata up to the SELECT, lines 234-245: an empty
\* SOPInstanceUID is logged and the function returns None.
ImageSelect(w) ==
    /\ pc[w] = "image"
    /\ IF EmptyStr(ImageKey(Ds(w)))
       THEN /\ Succeed(w)
            /\ UNCHANGED <<image, stmts>>
       ELSE /\ Log(w, "image", "select")
            /\ IF ImageExists(Ds(w))
               THEN /\ Succeed(w)
                    /\ image' = OnHit(image, "sop_instance_uid", ImageKey(Ds(w)), Ds(w))
               ELSE /\ pc' = [pc EXCEPT ![w] = "image_insert"]
                    /\ UNCHANGED <<outcome, failedAt, image, completed>>
    /\ UNCHANGED <<patient, study, series, serial, file, pkey, skey, sekey,
                   curBound, inserted, prior, calls>>
    /\ UNCHANGED otherVars

\* save_image_metadata: the INSERT, lines 247-279, and the return of
\* save_metadata.
ImageInsert(w) ==
    /\ pc[w] = "image_insert"
    /\ Log(w, "image", "insert")
    /\ serial' = NextSerial("image")
    /\ IF UniqueViolation(image, "sop_instance_uid", ImageKey(Ds(w)))
       THEN /\ Raise(w, "image", "UniqueViolation")
            /\ UNCHANGED <<image, inserted, completed>>
       ELSE /\ image' = image \cup {ImageRow(Ds(w), Path(w), sekey[w], serial.image)}
            /\ inserted' = [inserted EXCEPT ![w] = @ + 1]
            /\ Succeed(w)
    /\ UNCHANGED <<patient, study, series, file, pkey, skey, sekey, curBound,
                   prior, calls>>
    /\ UNCHANGED otherVars

Next ==
    \/ \E w \in Workers, f \in FileIds : Call(w, f)
    \/ \E w \in Workers : PatientSelect(w)
    \/ \E w \in Workers : PatientInsert(w)
    \/ \E w \in Workers : StudySelect(w)
    \/ \E w \in Workers : StudyInsert(w)
    \/ \E w \in Workers : SeriesSelect(w)
    \/ \E w \in Workers : SeriesInsert(w)
    \/ \E w \in Workers : ImageSelect(w)
    \/ \E w \in Workers : ImageInsert(w)

Spec == Init /\ [][Next]_vars


\* ------------------------------------------------------------------ claims
Range(q) == {q[i] : i \in DOMAIN q}

EmptyTag(ds, tag) == EmptyStr(get_str(Get(ds, tag, NoneVal)))

\* The natural keys of each file's dataset (the empty string where computing
\* the key raises).
KeysOf ==
    [f \in FileIds |->
        LET ds == Files[f].ds
        IN  [p |-> IF PatientKeyRaises(ds) THEN <<>> ELSE PatientKey(ds),
             s |-> IF StudyKeyRaises(ds) THEN <<>> ELSE StudyKey(ds),
             e |-> IF SeriesKeyRaises(ds) THEN <<>> ELSE SeriesKey(ds)]]

\* C1: for Patient, Study and Series, no two rows share a natural key, and
\* every ingestion that has resolved a key finds exactly one row with the
\* natural key of its dataset, in every interleaving of concurrent calls.
C1_NaturalKeyUnique ==
    /\ \A r1, r2 \in patient : r1.patient_id = r2.patient_id => r1 = r2
    /\ \A r1, r2 \in study : r1.study_instance_uid = r2.study_instance_uid => r1 = r2
    /\ \A r1, r2 \in series : r1.series_instance_uid = r2.series_instance_uid => r1 = r2
    /\ \A w \in Workers :
        /\ pkey[w] # 0 =>
             Cardinality(Select(patient, "patient_id", KeysOf[file[w]].p)) = 1
        /\ skey[w] # 0 =>
             Cardinality(Select(study, "study_instance_uid", KeysOf[file[w]].s)) = 1
        /\ sekey[w] # 0 =>
             Cardinality(Select(series, "series_instance_uid", KeysOf[file[w]].e)) = 1

\* Two ingestions of different files that share patient, study and series
\* have both resolved all three keys, to the same rows.
C1_Witness ==
    \E w1, w2 \in Workers :
        /\ file[w1] = 1 /\ file[w2] = 2
        /\ sekey[w1] # 0 /\ sekey[w1] = sekey[w2]
        /\ pkey[w1] = pkey[w2] /\ skey[w1] = skey[w2]

\* C2: a uniqueness violation on the INSERT of a Patient, Study or Series is
\* never propagated: no ingestion ends with it.
C2_ConflictNotPropagated ==
    \A w \in Workers :
        ~(failedAt[w] \in {"patient", "study", "series"} /\ outcome[w] = "UniqueViolation")

C4_ConcurrentDuplicateAbsorbed ==
    /\ \A w \in Workers : ~(failedAt[w] = "image" /\ outcome[w] # "ok")
    /\ \A r1, r2 \in image : r1.sop_instance_uid = r2.sop_instance_uid => r1 = r2

\* C5: an ingestion of a readable dataset whose SOPInstanceUID is empty, all
\* other identifiers present, never ends as a success, and creates no Image
\* row.
C5_MissingSopFails ==
    /\ \A w \in Workers :
        (/\ pc[w] = "done"
         /\ Files[file[w]].disk = "ok"
         /\ ~EmptyTag(Ds(w), "PatientID")
         /\ ~EmptyTag(Ds(w), "StudyInstanceUID")
         /\ ~EmptyTag(Ds(w), "SeriesInstanceUID")
         /\ EmptyStr(ImageKey(Ds(w))))
        => outcome[w] # "ok"
    /\ \A r \in image : ~EmptyStr(r.sop_instance_uid)

C7_AppendOnly ==
    [][/\ patient \subseteq patient'
       /\ study \subseteq study'
       /\ series \subseteq series'
       /\ image \subseteq image']_vars

\* Rows exist, a later ingestion has reused them and added an image, and an
\* ingestion has failed.
C7_Witness ==
    /\ Cardinality(image) >= 2
    /\ \E w \in Workers : outcome[w] = "UniqueViolation"

\* C8 (as claimed): once an ingestion of a dataset with an empty
\* AccessionNumber has resolved its Study, the Study row of its
\* StudyInstanceUID has AccessionNumber equal to that StudyInstanceUID.
C8_EmptyAccessionAlways ==
    \A w \in Workers :
        (skey[w] # 0 /\ EmptyTag(Ds(w), "AccessionNumber")) =>
            \A r \in Select(study, "study_instance_uid", StudyKey(Ds(w))) :
                r.accession_number = StudyKey(Ds(w))

\* C8 (amended): when an ingestion of a dataset with an empty AccessionNumber
\* inserts the Study row, that row's AccessionNumber equals its (possibly
\* synthesized) StudyInstanceUID.
C8_EmptyAccessionOnCreate ==
    \A w \in Workers :
        (/\ skey[w] # 0
         /\ <<"study", "insert">> \in Range(stmts[w])
         /\ EmptyTag(Ds(w), "AccessionNumber")) =>
            \E r \in study :
                /\ r.study_prkey = skey[w]
                /\ r.study_instance_uid = StudyKey(Ds(w))
                /\ r.accession_number = r.study_instance_uid

\* The Study row was created from a dataset with empty AccessionNumber and
\* empty StudyInstanceUID.
C8_Witness ==
    \E w \in Workers :
        /\ file[w] = 3 /\ skey[w] # 0
        /\ <<"study", "insert">> \in Range(stmts[w])

\* The files whose dataset has an empty or absent PatientID, and for those
\* that carry a SOPInstanceUID the natural key the claim expects.
NoPidFiles == {f \in FileIds : Files[f].disk = "ok" /\ EmptyTag(Files[f].ds, "PatientID")}

ExpectedPatientId ==
    [f \in {g \in NoPidFiles : HasAttr(Files[g].ds, "SOPInstanceUID")} |->
        UNKNOWN_PATIENT \o Files[f].ds["SOPInstanceUID"].val]

\* C9: an ingestion of a dataset with empty or absent PatientID resolves to
\* the Patient row whose natural key is "UNKNOWN_PATIENT_" followed by the
\* dataset's SOPInstanceUID, and two such datasets with different
\* SOPInstanceUIDs resolve to different rows.
C9_PatientFallback ==
    /\ \A w \in Workers :
        (pkey[w] # 0 /\ file[w] \in NoPidFiles) =>
            /\ file[w] \in DOMAIN ExpectedPatientId
            /\ \E r \in patient :
                    /\ r.patient_prkey = pkey[w]
                    /\ r.patient_id = ExpectedPatientId[file[w]]
    /\ \A w1, w2 \in Workers :
        (/\ pkey[w1] # 0 /\ pkey[w2] # 0
         /\ file[w1] \in NoPidFiles /\ file[w2] \in NoPidFiles
         /\ ExpectedPatientId[file[w1]] # ExpectedPatientId[file[w2]])
        => pkey[w1] # pkey[w2]
    /\ \A f1, f2 \in DOMAIN ExpectedPatientId :
        (/\ completed[f1].ok /\ completed[f2].ok
         /\ ExpectedPatientId[f1] # ExpectedPatientId[f2])
        => completed[f1].p # completed[f2].p

\* Datasets 3 (empty PatientID) and 4 (absent PatientID) have both resolved
\* their Patient.
C9_Witness ==
    \E w1, w2 \in Workers :
        file[w1] = 3 /\ file[w2] = 4 /\ pkey[w1] # 0 /\ pkey[w2] # 0


\* ------------------------------------------------- viewer: path resolution
\* Paths are strings (sequences of characters); a canonical path is also
\* handled as its sequence of segments.
Sep == "/"

RECURSIVE SplitFrom(_, _, _)
\* str.split("/") from position i on, cur being the segment read so far.
SplitFrom(s, i, cur) ==
    IF i > Len(s) THEN <<cur>>
    ELSE IF s[i] = Sep THEN <<cur>> \o SplitFrom(s, i + 1, <<>>)
    ELSE SplitFrom(s, i + 1, Append(cur, s[i]))

Split(s) == SplitFrom(s, 1, <<>>)

RECURSIVE JoinSegs(_)
\* "/" + "/".join(segs)
JoinSegs(segs) ==
    IF Len(segs) = 0 THEN <<>>
    ELSE <<Sep>> \o Head(segs) \o JoinSegs(Tail(segs))

AbsPath(segs) == IF Len(segs) = 0 THEN <<Sep>> ELSE JoinSegs(segs)

\* os.path.isabs
IsAbs(s) == Len(s) > 0 /\ s[1] = Sep

\* os.path.join(a, b) for a relative b
PathJoin(a, b) == IF a[Len(a)] = Sep THEN a \o b ELSE a \o <<Sep>> \o b

\* str.startswith
StartsWith(s, prefix) ==
    Len(s) >= Len(prefix) /\ SubSeq(s, 1, Len(prefix)) = prefix

Dot == <<".">>

DotDot == <<".", ".">>

\* The directory of the program files (BASE_DIR) and the name of the
\* storage directory in it.
BASE_DIR == <<"/","b">>

RECEIVED_DICOM == <<"r","e","c","e","i","v","e","d","_","d","i","c","o","m">>

\* The file system the viewer runs on. Symbolic links: link path |-> target,
\* both as canonical segment sequences.
SegEtc == <<"e","t","c">>

SegPasswd == <<"p","w">>

SegStudyDir == <<"A","1">>

SegSibling == RECEIVED_DICOM \o <<"_","x">>

SegLink == <<"l","n">>

RootSegs == <<<<"b">>, RECEIVED_DICOM>>

Symlinks == {[link |-> RootSegs \o <<SegLink>>, target |-> <<SegEtc>>]}

\* Existing files and directories, by canonical path.
Disk ==
    {AbsPath(p) : p \in {RootSegs,
                         RootSegs \o <<SegStudyDir>>,
                         RootSegs \o <<SegStudyDir, <<"1">>>>,
                         <<SegEtc>>,
                         <<SegEtc, SegPasswd>>,
                         <<<<"b">>, SegSibling>>,
                         <<<<"b">>, SegSibling, <<"f">>>>}}

RECURSIVE Resolve(_, _)
\* os.path.realpath on segments: done is the canonical prefix, todo the
\* segments still to apply. Empty and "." segments are dropped, ".." removes
\* the last segment, a prefix that is a symbolic link is replaced by its
\* target.
Resolve(done, todo) ==
    IF Len(todo) = 0 THEN done
    ELSE LET seg == Head(todo)
             rest == Tail(todo)
         IN  IF seg = <<>> \/ seg = Dot THEN Resolve(done, rest)
             ELSE IF seg = DotDot
                  THEN Resolve(IF Len(done) = 0 THEN done
                               ELSE SubSeq(done, 1, Len(done) - 1), rest)
             ELSE LET nxt == Append(done, seg)
                      links == {l \in Symlinks : l.link = nxt}
                  IN  IF links # {}
                      THEN Resolve((CHOOSE l \in links : TRUE).target, rest)
                      ELSE Resolve(nxt, rest)

\* os.path.realpath of an absolute path
realpath(s) == AbsPath(Resolve(<<>>, Split(s)))

\* dicom_viewer.RECEIVED_DICOM_ROOT, line 64
RECEIVED_DICOM_ROOT == realpath(PathJoin(BASE_DIR, RECEIVED_DICOM))

\* dicom_viewer.resolve_dicom_path_for_viewer, lines 333-351
resolve_dicom_path_for_viewer(db_path) ==
    IF IsAbs(db_path)
    THEN realpath(db_path)
    ELSE realpath(PathJoin(RECEIVED_DICOM_ROOT, db_path))

\* The security check of both handlers, lines 364 and 520.
WithinRoot(full_dicom_path) == StartsWith(full_dicom_path, RECEIVED_DICOM_ROOT)

\* os.path.exists
Exists(path) == path \in Disk

\* The stored-file references a client can send.
Up == DotDot \o <<Sep>>

Refs ==
    { SegStudyDir \o <<Sep, "1">>,                             \* A1/1
      SegStudyDir \o <<Sep, "9">>,                             \* A1/9, no such file
      SegStudyDir \o <<Sep>> \o Up \o SegStudyDir \o <<Sep, "1">>,  \* A1/../A1/1
      Up \o Up \o SegEtc \o <<Sep>> \o SegPasswd,              \* ../../etc/pw
      SegStudyDir \o <<Sep>> \o Up \o Up \o Up \o SegEtc \o <<Sep>> \o SegPasswd,
      <<Sep>> \o SegEtc \o <<Sep>> \o SegPasswd,               \* /etc/pw
      SegLink \o <<Sep>> \o SegPasswd,                         \* ln/pw, ln -> /etc
      Up \o SegSibling \o <<Sep, "f">>,                        \* ../received_dicom_x/f
      <<Sep, "b", Sep>> \o SegSibling \o <<Sep, "f">>,         \* /b/received_dicom_x/f
      <<Sep, "b", Sep>> \o SegSibling \o <<Sep, "g">>,         \* the same, no such file
      RECEIVED_DICOM_ROOT \o <<Sep>> \o SegStudyDir \o <<Sep, "1">>,
      <<Sep, "b", Sep>> \o Up \o <<"b", Sep>> \o RECEIVED_DICOM \o <<Sep>> \o SegStudyDir,
      Up \o RECEIVED_DICOM,                                    \* ../received_dicom
      <<Sep, "b">>,                                            \* /b
      SegStudyDir,                                             \* A1, a directory
      SegStudyDir \o <<Sep, ".", Sep, "1">>,                   \* A1/./1
      SegStudyDir \o <<Sep, Sep, "1">>,                        \* A1//1
      SegLink }                                                \* ln -> /etc

Entries == {"image_data", "image_metadata"}

Did(what) == vlog' = Append(vlog, what)

\* The handler is entered and resolves the reference (lines 361, 517).
ViewerResolve(entry, ref) ==
    /\ vpc \in {"idle", "done"}
    /\ ventry' = entry
    /\ vref' = ref
    /\ vpath' = resolve_dicom_path_for_viewer(ref)
    /\ vlog' = <<"realpath">>
    /\ vresp' = 0
    /\ vpc' = "resolved"
    /\ UNCHANGED backendVars

\* The root check (lines 364-366, 520-522): abort(403) outside the root.
ViewerCheckRoot ==
    /\ vpc = "resolved"
    /\ Did("startswith")
    /\ IF WithinRoot(vpath)
       THEN vpc' = "checked" /\ UNCHANGED vresp
       ELSE vpc' = "done" /\ vresp' = 403
    /\ UNCHANGED <<ventry, vref, vpath, backendVars>>

\* The existence test (lines 368-370, 524-525): abort(404) when missing.
ViewerExists ==
    /\ vpc = "checked"
    /\ Did("exists")
    /\ IF Exists(vpath)
       THEN vpc' = "exists" /\ UNCHANGED vresp
       ELSE vpc' = "done" /\ vresp' = 404
    /\ UNCHANGED <<ventry, vref, vpath, backendVars>>

\* The file is read with dcmread(force=True) (lines 373, 528).
ViewerRead ==
    /\ vpc = "exists"
    /\ Did("dcmread")
    /\ vpc' = "done"
    /\ UNCHANGED <<ventry, vref, vpath, vresp, backendVars>>

ViewerNext ==
    \/ \E entry \in Entries, ref \in Refs : ViewerResolve(entry, ref)
    \/ ViewerCheckRoot
    \/ ViewerExists
    \/ ViewerRead

ViewerSpec == Init /\ [][ViewerNext]_vars

\* A canonical path is confined to the root when the root's segments are a
\* prefix of its segments.
Confined(path) ==
    LET segs == Resolve(<<>>, Split(path))
    IN  Len(segs) >= Len(RootSegs) /\ SubSeq(segs, 1, Len(RootSegs)) = RootSegs

Position(what) == CHOOSE i \in DOMAIN vlog : vlog[i] = what

\* C10: for both entry points, a reference that resolves outside the storage
\* root (through ".." segments or as an absolute path) is answered 403 by
\* the root check; the reference is canonicalized before the prefix check;
\* and no existence test or read of the path happens before the check has
\* passed.
C10_TraversalRejected ==
    /\ (vpc \notin {"idle", "resolved"} /\ ~Confined(vpath)) => vresp = 403
    /\ "startswith" \in Range(vlog) =>
          /\ "realpath" \in Range(vlog)
          /\ Position("realpath") < Position("startswith")
    /\ \A op \in {"exists", "dcmread"} :
          op \in Range(vlog) =>
              /\ "startswith" \in Range(vlog)
              /\ Position("startswith") < Position(op)
              /\ WithinRoot(vpath)

\* The root check has been passed by the current request.
PassedRootCheck == "startswith" \in Range(vlog) /\ vresp # 403

\* C11: every reference that passes the root check of image_data or
\* image_metadata resolves to the storage root itself or to a descendant of
\* it; a path in a sibling directory whose name starts with the root's name
\* does not pass.
C11_PassedMeansConfined == PassedRootCheck => Confined(vpath)

\* ------------------------------------------------ handle_store: the layout
Letters ==
    {"a","b","c","d","e","f","g","h","i","j","k","l","m",
     "n","o","p","q","r","s","t","u","v","w","x","y","z",
     "A","B","C","D","E","F","G","H","I","J","K","L","M",
     "N","O","P","Q","R","S","T","U","V","W","X","Y","Z"}

Digits == {"0","1","2","3","4","5","6","7","8","9"}

\* str.isalnum() of one character
IsAlnum(c) == c \in Letters \cup Digits

UNKNOWN_ACCESSION ==
    <<"U","N","K","N","O","W","N","_","A","C","C","E","S","S","I","O","N">>

DCM == <<".","d","c","m">>

\* dicom_server.RECEIVED_DIR, line 39 (joined, not canonicalized)
RECEIVED_DIR == PathJoin(BASE_DIR, RECEIVED_DICOM)

\* os.path.join(a, b): an absolute b replaces a.
OsPathJoin(a, b) == IF IsAbs(b) THEN b ELSE PathJoin(a, b)

\* os.path.normpath on segments (no symbolic links involved).
RECURSIVE NormSegs(_, _)
NormSegs(done, todo) ==
    IF Len(todo) = 0 THEN done
    ELSE LET seg == Head(todo)
             rest == Tail(todo)
         IN  IF seg = <<>> \/ seg = Dot THEN NormSegs(done, rest)
             ELSE IF seg = DotDot
                  THEN NormSegs(IF Len(done) = 0 THEN done
                                ELSE SubSeq(done, 1, Len(done) - 1), rest)
             ELSE NormSegs(Append(done, seg), rest)

RECURSIVE JoinRel(_)
\* "/".join(segs)
JoinRel(segs) ==
    IF Len(segs) = 0 THEN <<>>
    ELSE IF Len(segs) = 1 THEN Head(segs)
    ELSE Head(segs) \o <<Sep>> \o JoinRel(Tail(segs))

\* os.path.relpath(path, start) of two absolute paths
RelPath(path, start) ==
    LET p == NormSegs(<<>>, Split(path))
        b == NormSegs(<<>>, Split(start))
        same == {i \in 0..Len(b) : i <= Len(p) /\ SubSeq(p, 1, i) = SubSeq(b, 1, i)}
        common == SetMax(same)
        rel == [i \in 1..(Len(b) - common) |-> DotDot] \o SubSeq(p, common + 1, Len(p))
    IN  IF Len(rel) = 0 THEN Dot ELSE JoinRel(rel)

\* Mutant: the sanitizer also keeps the dot.
KeepsDotted(c) == IsAlnum(c) \/ c \in {"-", "_", "."}

\* The characters line 56 keeps.
Keeps(c) == IsAlnum(c) \/ c \in {"-", "_"}

RECURSIVE JoinKept(_)
\* "".join(c for c in s if <kept>), line 56
JoinKept(s) ==
    IF Len(s) = 0 THEN <<>>
    ELSE (IF Keeps(Head(s)) THEN <<Head(s)>> ELSE <<>>) \o JoinKept(Tail(s))

\* Line 54
accession_number(ds) == get_str(Get(ds, "AccessionNumber", Str(UNKNOWN_ACCESSION)))

\* Line 56
Sanitized(ds) == Strip(JoinKept(accession_number(ds)))

\* Lines 57-58 raise AttributeError when the fallback is needed and the
\* dataset has no SOPInstanceUID.
DirRaises(ds) == EmptyStr(Sanitized(ds)) /\ ~HasAttr(ds, "SOPInstanceUID")

\* Lines 56-58
accession_number_safe(ds) ==
    IF EmptyStr(Sanitized(ds)) THEN PyStr(ds["SOPInstanceUID"]) ELSE Sanitized(ds)

\* Line 62
study_dir(ds) == OsPathJoin(RECEIVED_DIR, accession_number_safe(ds))

\* Line 67 raises AttributeError without a SOPInstanceUID.
PathRaises(ds) == ~HasAttr(ds, "SOPInstanceUID")

\* Line 67
filepath_absolute(ds) == OsPathJoin(study_dir(ds), PyStr(ds["SOPInstanceUID"]) \o DCM)

\* Line 76
filepath_relative_for_db(ds) == RelPath(filepath_absolute(ds), RECEIVED_DIR)

\* C-STORE status codes returned by handle_store.
Success == 0

ProcessingFailure == 49153

CannotUnderstand == 49680

\* `except Exception` around save_metadata, lines 81-83
InnerExcept(exc) == [status |-> ProcessingFailure, escaped |-> "none", wrote |-> TRUE]

\* `except Exception` around the whole handler, lines 86-88
OuterExcept(exc) == [status |-> CannotUnderstand, escaped |-> "none", wrote |-> FALSE]

\* The datasets an association can deliver, as far as lines 48-70 read them:
\* AccessionNumber and SOPInstanceUID, each present or absent.
MaxAccLen == 2

AccChars == {"A", "1", "-", "_", "/", ".", " "}

AccStrings == UNION {[1..k -> AccChars] : k \in 0..MaxAccLen}

AccValues ==
    {NoneVal, Multi(<<>>)}
        \cup {Str(s) : s \in AccStrings}
        \cup {Multi(<<Str(s), Str(<<"B">>)>>) : s \in AccStrings}

\* A conformant UID, an empty one, and two texts a sender can put in the
\* element: one climbing out of the directory and one absolute.
SopValues ==
    {Str(<<"1", ".", "2">>), Str(<<>>),
     Str(<<".", ".", "/", ".", ".", "/", "x">>), Str(<<"/", "x">>)}

LayoutInputs ==
    {[AccessionNumber |-> a, SOPInstanceUID |-> u] : a \in AccValues, u \in SopValues}
        \cup {[AccessionNumber |-> a] : a \in AccValues}
        \cup {[SOPInstanceUID |-> u] : u \in SopValues}
        \cup {<<>>}

\* handle_store up to save_as, lines 48-71; io is whether save_as succeeds.
HandleStore(ds, io) ==
    /\ lpc = "idle"
    /\ lds' = ds
    /\ IF DirRaises(ds)
       THEN /\ ldir' = [chosen |-> FALSE, name |-> <<>>]
            /\ lmade' = {}
            /\ lwritten' = {}
            /\ lstatus' = OuterExcept("AttributeError").status
            /\ lpc' = "returned"
       ELSE /\ ldir' = [chosen |-> TRUE, name |-> accession_number_safe(ds)]
            /\ lmade' = {study_dir(ds)}
            /\ IF PathRaises(ds)
               THEN /\ lwritten' = {}
                    /\ lstatus' = OuterExcept("AttributeError").status
                    /\ lpc' = "returned"
               ELSE IF io = "OSError"
               THEN /\ lwritten' = {}
                    /\ lstatus' = OuterExcept(io).status
                    /\ lpc' = "returned"
               ELSE /\ lwritten' = {filepath_absolute(ds)}
                    /\ lstatus' = -1
                    /\ lpc' = "written"
    /\ UNCHANGED <<catalogVars, renderVars, storeVars, sideVars>>

\* The rest of handle_store, lines 73-85: save_metadata returns or raises.
HandleStoreCatalog(out) ==
    /\ lpc = "written"
    /\ lstatus' = IF out = "ok" THEN Success ELSE InnerExcept(out).status
    /\ lpc' = "returned"
    /\ UNCHANGED <<lds, ldir, lmade, lwritten, catalogVars, renderVars, storeVars, sideVars>>

\* A C-STORE request arrives (evt.EVT_C_STORE, line 90).
LayoutReceive ==
    /\ lpc = "idle"
    /\ \E ds \in LayoutInputs, io \in {"ok", "OSError"} : HandleStore(ds, io)

LayoutNext ==
    \/ LayoutReceive
    \/ \E out \in {"ok", "UniqueViolation"} : HandleStoreCatalog(out)

LayoutSpec == Init /\ [][LayoutNext]_vars

\* The text of the received AccessionNumber: its first value when
\* multi-valued, empty when it has no value or is absent.
AccessionText(ds) ==
    IF ~HasAttr(ds, "AccessionNumber") THEN <<>>
    ELSE LET a == ds["AccessionNumber"]
         IN  IF a.kind = "str" THEN a.val
             ELSE IF a.kind = "multi" /\ Len(a.vals) > 0 THEN a.vals[1].val
             ELSE <<>>

SafeChar(c) == c \in Letters \cup Digits \cup {"-", "_"}

OnlySafe(s) == SelectSeq(s, SafeChar)

\* The dataset's SOPInstanceUID as text; no directory can carry the name of
\* an identifier the dataset lacks.
SopText(ds) ==
    IF HasAttr(ds, "SOPInstanceUID") THEN ds["SOPInstanceUID"].val ELSE <<"/">>

StoreEvents == {f \in FileIds : Files[f].disk = "ok"}

\* The file a relative path names.
FileAt(path) == CHOOSE f \in FileIds : Files[f].path = path

\* The store requests that reach save_metadata in one run.
MaxStores == 2

\* handle_store up to save_as, lines 48-71, in an SCP thread that is not
\* inside save_metadata; io is whether save_as succeeds.
StoreReceive(w, f, io) ==
    /\ spc[w] \in {"idle", "returned"}
    /\ pc[w] \in {"idle", "done"}
    /\ calls < MaxStores
    /\ sfile' = [sfile EXCEPT ![w] = f]
    /\ safter' = [safter EXCEPT ![w] = sfailed]
    /\ LET ds == Files[f].ds
       IN  IF DirRaises(ds) \/ PathRaises(ds) \/ io = "OSError"
           THEN /\ sresult' = [sresult EXCEPT ![w] =
                       OuterExcept(IF io = "OSError" THEN io ELSE "AttributeError")]
                /\ spc' = [spc EXCEPT ![w] = "returned"]
                /\ sfailed' = TRUE
                /\ UNCHANGED <<sdisk, pc>>
           ELSE /\ sdisk' = sdisk \cup {filepath_relative_for_db(ds)}
                /\ sresult' = [sresult EXCEPT ![w] = NoStatus]
                /\ spc' = [spc EXCEPT ![w] = "written"]
                /\ pc' = [pc EXCEPT ![w] = "idle"]
                /\ UNCHANGED sfailed
    /\ UNCHANGED <<tables, file, pkey, skey, sekey, curBound, outcome, stmts,
                   failedAt, inserted, prior, completed, calls>>
    /\ UNCHANGED <<renderVars, layoutVars, sideVars>>

\* Lines 76-79: save_metadata is entered with the relative path of the file
\* just written.
StoreCall(w) ==
    /\ spc[w] = "written"
    /\ pc[w] = "idle"
    /\ Call(w, FileAt(filepath_relative_for_db(Files[sfile[w]].ds)))

\* Lines 80-85: save_metadata has returned or raised.
StoreReturn(w) ==
    /\ spc[w] = "written"
    /\ pc[w] = "done"
    /\ sresult' = [sresult EXCEPT ![w] =
           IF outcome[w] = "ok"
           THEN [status |-> Success, escaped |-> "none", wrote |-> TRUE]
           ELSE InnerExcept(outcome[w])]
    /\ sfailed' = (sfailed \/ outcome[w] # "ok")
    /\ spc' = [spc EXCEPT ![w] = "returned"]
    /\ UNCHANGED <<sfile, safter, sdisk, catalogVars, renderVars, layoutVars, sideVars>>

StoreNext ==
    \/ \E w \in Workers, f \in StoreEvents, io \in {"ok", "OSError"} :
           StoreReceive(w, f, io)
    \/ \E w \in Workers : StoreCall(w)
    \/ \E w \in Workers : PatientSelect(w)
    \/ \E w \in Workers : PatientInsert(w)
    \/ \E w \in Workers : StudySelect(w)
    \/ \E w \in Workers : StudyInsert(w)
    \/ \E w \in Workers : SeriesSelect(w)
    \/ \E w \in Workers : SeriesInsert(w)
    \/ \E w \in Workers : ImageSelect(w)
    \/ \E w \in Workers : ImageInsert(w)
    \/ \E w \in Workers : StoreReturn(w)

StoreSpec == Init /\ [][StoreNext]_vars

\* The dataset of worker w's store request.
StoreDs(w) == Files[sfile[w]].ds

\* A dataset with a SOPInstanceUID to catalogue it under.
ValidDataset(ds) ==
    HasAttr(ds, "SOPInstanceUID") /\ ~EmptyStr(get_str(ds["SOPInstanceUID"]))

\* The catalog holds the Image row of the dataset.
Catalogued(ds) ==
    /\ ValidDataset(ds)
    /\ \E r \in image : r.sop_instance_uid = get_str(ds["SOPInstanceUID"])

\* The store request of worker w has returned without storing and
\* cataloguing its dataset.
Failing(w) == ~sresult[w].wrote \/ ~Catalogued(StoreDs(w))

C13_NoEscape ==
    \A w \in Workers : spc[w] = "returned" => sresult[w].escaped = "none"

C13_StatusTellsFailure ==
    \A w \in Workers :
        spc[w] = "returned" =>
            sresult[w].status =
                IF ~Failing(w) THEN Success
                ELSE IF sresult[w].wrote THEN ProcessingFailure
                ELSE CannotUnderstand

C13_RecoversAfterFailure ==
    \A w \in Workers :
        (/\ spc[w] = "returned"
         /\ safter[w]
         /\ ValidDataset(StoreDs(w))
         /\ sresult[w].wrote) =>
            sresult[w].status = Success /\ Catalogued(StoreDs(w))

\* C13: handle_store lets no exception escape; a store request that fails
\* returns 0xC001 when the file was written and cataloging failed, 0xC210
\* for any other failure, and a successful one returns 0x0000; a store
\* request with a valid dataset that follows a failed one succeeds and is
\* catalogued (its file having been written).
C13_FailuresReportedAndSurvived ==
    /\ C13_NoEscape
    /\ C13_StatusTellsFailure
    /\ C13_RecoversAfterFailure

\* ------------------------------------------------ viewer: pixel pipeline
\* Numbers. A float of the program is held as twice its value, so that the
\* half-integers the midpoint produces are exact; the datasets and requests
\* below carry integer-valued numbers only. Integer samples (raw arrays,
\* uint8 results) are held as they are.
Float(n) == 2 * n

\* x / 2.0
Halved(x) == x \div 2

Num(x) == [kind |-> "num", val |-> x]

\* value[0] of a MultiValue, the value itself otherwise (lines 408-411)
FirstIfMulti(v) == IF v.kind = "multi" THEN v.vals[1] ELSE v

RECURSIVE Product(_)
Product(shape) == IF Len(shape) = 0 THEN 1 ELSE Head(shape) * Product(Tail(shape))

\* Arrays: shape and the samples in C order.
NDim(a) == Len(a.shape)

LastDim(a) == a.shape[Len(a.shape)]

\* a[0]
First(a) ==
    [a EXCEPT !.shape = Tail(a.shape),
              !.vals = SubSeq(a.vals, 1, Product(Tail(a.shape)))]

\* a.astype(np.float32)
AsFloat32(a) == [shape |-> a.shape, vals |-> [i \in DOMAIN a.vals |-> Float(a.vals[i])]]

\* np.min, np.max
ArrayMin(a) == SetMin({a.vals[i] : i \in DOMAIN a.vals})

ArrayMax(a) == SetMax({a.vals[i] : i \in DOMAIN a.vals})

\* np.clip of one value
Clip(x, lo, hi) == IF x < lo THEN lo ELSE IF x > hi THEN hi ELSE x

\* ds.pixel_array: the decoded Pixel Data
pixel_array(ds) == ds["PixelData"]

\* Mutant: the last frame is taken.
LastFrame(a) ==
    [a EXCEPT !.shape = Tail(a.shape),
              !.vals = SubSeq(a.vals, Len(a.vals) - Product(Tail(a.shape)) + 1,
                              Len(a.vals))]

\* The frame the handlers work on.
FrameOf(a) == First(a)

\* Lines 385-386 and 532: the dataset declares frames and the array has them.
MultiFrame(ds, raw) == Get(ds, "NumberOfFrames", Num(1)).val > 1 /\ NDim(raw) > 2

\* Lines 385-393
pixel_array_orig(ds) ==
    LET pixel_array_raw == pixel_array(ds)
    IN  IF MultiFrame(ds, pixel_array_raw)
        THEN AsFloat32(FrameOf(pixel_array_raw))
        ELSE AsFloat32(pixel_array_raw)

\* Lines 397 and 551
HasRescale(ds) == HasAttr(ds, "RescaleSlope") /\ HasAttr(ds, "RescaleIntercept")

\* Lines 397-400: array * slope + intercept in floats; slope and intercept
\* are integer-valued.
Rescaled(ds, a) ==
    IF HasRescale(ds)
    THEN [a EXCEPT !.vals = [i \in DOMAIN a.vals |->
              a.vals[i] * ds["RescaleSlope"].val + Float(ds["RescaleIntercept"].val)]]
    ELSE a

\* Lines 405-411 and 539-545: the window the dataset offers. A dataset read
\* from a file carries the window centre under the keyword WindowCenter.
default_wl(ds) == FirstIfMulti(Get(ds, "WindowLevel", NoneVal))

default_ww(ds) == FirstIfMulti(Get(ds, "WindowWidth", NoneVal))

\* A dataset's number as a float.
AsFloat(v) == IF v.kind = "None" THEN v ELSE Num(Float(v.val))

\* Query arguments: absent, or a text.
NoArg == [present |-> FALSE, text |-> <<>>]

Arg(text) == [present |-> TRUE, text |-> text]

\* The truth value of request.args.get(name)
Truthy(arg) == arg.present /\ Len(arg.text) > 0

DigitValue ==
    [c \in Digits |-> CHOOSE n \in 0..9 :
        <<"0","1","2","3","4","5","6","7","8","9">>[n + 1] = c]

RECURSIVE ParseDigits(_, _)
ParseDigits(s, acc) ==
    IF Len(s) = 0 THEN acc ELSE ParseDigits(Tail(s), 10 * acc + DigitValue[Head(s)])

\* float(text) of a decimal integer text; anything else raises ValueError.
FloatRaises(text) ==
    LET body == IF Len(text) > 0 /\ Head(text) = "-" THEN Tail(text) ELSE text
    IN  Len(body) = 0 \/ \E i \in DOMAIN body : body[i] \notin Digits

ParseFloat(text) ==
    IF Head(text) = "-" THEN Float(0 - ParseDigits(Tail(text), 0))
    ELSE Float(ParseDigits(text, 0))

\* Line 413 (and 414): the caller's value when the argument is given and not
\* empty, the dataset's otherwise.
CallerOr(arg, default) ==
    IF Truthy(arg) THEN Num(ParseFloat(arg.text)) ELSE default

\* Lines 418-421 and 556-559 on a float array
ComputedWindow(a) ==
    LET min_pixel == ArrayMin(a)
        max_pixel == ArrayMax(a)
    IN  [wl |-> Halved(min_pixel + max_pixel),
         ww |-> IF max_pixel - min_pixel > 0 THEN max_pixel - min_pixel ELSE Float(1)]

\* Lines 417-421: both parameters are computed when either is None.
WindowOrComputed(wl, ww, a) ==
    IF wl.kind = "None" \/ ww.kind = "None"
    THEN ComputedWindow(a)
    ELSE [wl |-> wl.val, ww |-> ww.val]

\* Lines 405-421: the effective window of image_data.
EffectiveWindow(ds, args, a) ==
    WindowOrComputed(CallerOr(args.wl, AsFloat(default_wl(ds))),
                     CallerOr(args.ww, AsFloat(default_ww(ds))), a)

\* Mutant: the clipped range is stretched over 256 levels.
StretchedFull(v, min_val, max_val) ==
    Clip(((Clip(v, min_val, max_val) - min_val) * 256) \div (max_val - min_val), 0, 255)

\* Lines 427-428 and 433 for one sample: clip to the window, stretch to
\* [0, 255], truncate to uint8.
Stretched(v, min_val, max_val) ==
    Clip(((Clip(v, min_val, max_val) - min_val) * 255) \div (max_val - min_val), 0, 255)

\* Mutant: a sample equal to the level becomes black.
BinarizedAbove(v, wl) == IF v > wl THEN 255 ELSE 0

\* Line 431 for one sample
Binarized(v, wl) == IF v >= wl THEN 255 ELSE 0

\* Lines 424-433: the windowing transform, to uint8.
Windowed(a, wl, ww) ==
    IF ww > 0
    THEN LET min_val == wl - Halved(ww)
             max_val == wl + Halved(ww)
         IN  [a EXCEPT !.vals = [i \in DOMAIN a.vals |->
                                    Stretched(a.vals[i], min_val, max_val)]]
    ELSE [a EXCEPT !.vals = [i \in DOMAIN a.vals |-> Binarized(a.vals[i], wl)]]

LowerLetters ==
    <<"a","b","c","d","e","f","g","h","i","j","k","l","m",
      "n","o","p","q","r","s","t","u","v","w","x","y","z">>

UpperLetters ==
    <<"A","B","C","D","E","F","G","H","I","J","K","L","M",
      "N","O","P","Q","R","S","T","U","V","W","X","Y","Z">>

LowerChar(c) ==
    IF \E i \in DOMAIN UpperLetters : UpperLetters[i] = c
    THEN LowerLetters[CHOOSE i \in DOMAIN UpperLetters : UpperLetters[i] = c]
    ELSE c

UpperChar(c) ==
    IF \E i \in DOMAIN LowerLetters : LowerLetters[i] = c
    THEN UpperLetters[CHOOSE i \in DOMAIN LowerLetters : LowerLetters[i] = c]
    ELSE c

\* str.lower() and str.upper()
Lower(s) == [i \in DOMAIN s |-> LowerChar(s[i])]

Upper(s) == [i \in DOMAIN s |-> UpperChar(s[i])]

CLAHE == <<"c","l","a","h","e">>

\* exposure.equalize_adapthist and the scaling back to uint8, lines 439-443:
\* each sample becomes its rank in the array's histogram, stretched to 255.
Equalized(a) ==
    [a EXCEPT !.vals = [i \in DOMAIN a.vals |->
        (255 * Cardinality({j \in DOMAIN a.vals : a.vals[j] <= a.vals[i]}))
            \div Len(a.vals)]]

\* Lines 436-443
Enhanced(args, a) ==
    IF Lower(args.enhance.text) = CLAHE THEN Equalized(a) ELSE a

\* Photometric interpretations
MONOCHROME1 == <<"M","O","N","O","C","H","R","O","M","E","1">>

MONOCHROME2 == <<"M","O","N","O","C","H","R","O","M","E","2">>

RGB == <<"R","G","B">>

YBR_FULL_422 == <<"Y","B","R","_","F","U","L","L","_","4","2","2">>

YBR_FULL == <<"Y","B","R","_","F","U","L","L">>

YBR_ICT == <<"Y","B","R","_","I","C","T">>

YBR_RCT == <<"Y","B","R","_","R","C","T">>

PALETTE_COLOR == <<"P","A","L","E","T","T","E"," ","C","O","L","O","R">>

NoImage == [mode |-> "none", shape |-> <<>>, vals |-> <<>>]

\* Image.fromarray of a uint8 array raises unless the array is 2-D or 3-D
\* with 2, 3 or 4 channels.
FromArrayRaises(a) == ~(NDim(a) = 2 \/ (NDim(a) = 3 /\ LastDim(a) \in {2, 3, 4}))

\* Image.fromarray of a uint8 array
FromArray(a) ==
    [mode |-> IF NDim(a) = 2 THEN "L"
              ELSE IF LastDim(a) = 2 THEN "LA"
              ELSE IF LastDim(a) = 3 THEN "RGB" ELSE "RGBA",
     shape |-> a.shape, vals |-> a.vals]

\* Mutant: the array is passed on as it is.
NotInverted(a) == a

\* 255 - array on uint8
Inverted(a) == [a EXCEPT !.vals = [i \in DOMAIN a.vals |-> 255 - a.vals[i]]]

\* array[:, :, 0]
Channel0(a) ==
    [a EXCEPT !.shape = SubSeq(a.shape, 1, 2),
              !.vals = [k \in 1..(a.shape[1] * a.shape[2]) |->
                           a.vals[(k - 1) * a.shape[3] + 1]]]

Made(a) ==
    IF FromArrayRaises(a) THEN [img |-> NoImage, exc |-> "TypeError"]
    ELSE [img |-> FromArray(a), exc |-> "none"]

\* abort(400, ...) raises an HTTPException.
Abort400 == [img |-> NoImage, exc |-> "BadRequest"]

\* Lines 451-454: the monochrome branches build the image from the array
\* whatever its shape.
Monochrome(a) == Made(a)

\* Lines 447-487: the photometric dispatch; the image, or the exception
\* raised instead.
Dispatch(ds, a) ==
    LET photometric_interpretation ==
            Upper(Get(ds, "PhotometricInterpretation", Str(<<>>)).val)
        three == NDim(a) = 3 /\ LastDim(a) = 3
    IN  IF photometric_interpretation = MONOCHROME1 THEN Monochrome(Inverted(a))
        ELSE IF photometric_interpretation \in {MONOCHROME2, <<>>} THEN Monochrome(a)
        ELSE IF photometric_interpretation = RGB
             THEN (IF three THEN Made(a) ELSE Abort400)
        ELSE IF photometric_interpretation \in {YBR_FULL_422, YBR_FULL, YBR_ICT, YBR_RCT}
             THEN (IF three THEN Made(a) ELSE Abort400)
        ELSE IF photometric_interpretation = PALETTE_COLOR
             THEN (IF NDim(a) = 2 \/ three THEN Made(a) ELSE Abort400)
        ELSE IF NDim(a) = 2 THEN Made(a)
        ELSE IF NDim(a) = 3 /\ LastDim(a) \in {1, 3}
             THEN Made(IF LastDim(a) = 1 THEN Channel0(a) ELSE a)
        ELSE Abort400

\* The except clauses of image_data, lines 503-508: abort(400) for an
\* invalid file, abort(500) for every other Exception, the HTTPException of
\* an abort inside the try block included.
Except(exc) == IF exc = "InvalidDicomError" THEN 400 ELSE 500

\* Lines 531-536: image_metadata keeps the array in its integer type.
pixel_array_for_minmax(ds) ==
    LET pixel_array_raw == pixel_array(ds)
    IN  IF MultiFrame(ds, pixel_array_raw) THEN FrameOf(pixel_array_raw)
        ELSE pixel_array_raw

\* Lines 556-559 on an array of unsigned integers of a.bits bits: the sum of
\* two numpy scalars of that type wraps; the division by 2.0 gives a float.
ComputedWindowRaw(a) ==
    LET min_pixel == ArrayMin(a)
        max_pixel == ArrayMax(a)
    IN  [wl |-> Halved(Float((min_pixel + max_pixel) % (2 ^ a.bits))),
         ww |-> IF (max_pixel - min_pixel) % (2 ^ a.bits) > 0
                THEN Float((max_pixel - min_pixel) % (2 ^ a.bits)) ELSE Float(1)]

\* Lines 539-562: the default window of image_metadata for a dataset with
\* Pixel Data (without it line 531 has raised).
MetadataWindow(ds, a) ==
    LET wl == AsFloat(default_wl(ds))
        ww == AsFloat(default_ww(ds))
    IN  IF wl.kind = "None" \/ ww.kind = "None"
        THEN (IF HasRescale(ds) THEN ComputedWindow(Rescaled(ds, AsFloat32(a)))
              ELSE ComputedWindowRaw(a))
        ELSE [wl |-> wl.val, ww |-> ww.val]

\* ------------------------------------------------- the files and requests
Array(bits, shape, vals) == [bits |-> bits, shape |-> shape, vals |-> vals]

Pairs(S) == {<<x, y>> : x \in S, y \in S}

RescaleTags ==
    { <<>>,
      [RescaleSlope |-> Num(2), RescaleIntercept |-> Num(-100)],
      [RescaleSlope |-> Num(2)] }

WindowTags ==
    { <<>>,
      [WindowWidth |-> Num(80)],
      [WindowCenter |-> Num(40), WindowWidth |-> Num(80)],
      [WindowCenter |-> Multi(<<Num(40), Num(50)>>),
       WindowWidth |-> Multi(<<Num(80), Num(400)>>)],
      [WindowCenter |-> Num(40), WindowWidth |-> Num(0)] }

\* One frame of two samples, 8 and 16 bits, with and without rescale and
\* window tags.
WindowFiles ==
    {[PixelData |-> px] @@ r @@ t :
        px \in {Array(8, <<1, 2>>, v) : v \in Pairs({0, 100, 200})}
                 \cup {Array(16, <<1, 2>>, v) : v \in Pairs({0, 40000, 60000})},
        r \in RescaleTags, t \in WindowTags}

\* One 8-bit sample of every value.
RampFiles == {[PixelData |-> Array(8, <<1, 1>>, <<v>>)] : v \in 0..255}

\* Two frames: frames x rows x columns, and frames x rows x columns x 3.
FrameFiles ==
    {[PixelData |-> Array(8, <<2, 1, 2>>, f0 \o f1), NumberOfFrames |-> Num(2)] @@ t :
        f0 \in Pairs({0, 200}), f1 \in {<<0, 0>>, <<255, 255>>, <<50, 60>>},
        t \in {<<>>, [WindowWidth |-> Num(80)]}}
      \cup
    {[PixelData |-> Array(8, <<2, 1, 1, 3>>, <<10, 20, 30>> \o f1),
      NumberOfFrames |-> Num(2), PhotometricInterpretation |-> Str(RGB)] :
        f1 \in {<<10, 20, 30>>, <<0, 255, 90>>}}
      \cup
    {[PixelData |-> Array(8, <<1, 2>>, <<0, 200>>), NumberOfFrames |-> Num(1)]}

Photometrics ==
    {MONOCHROME1, MONOCHROME2, <<>>, RGB, <<"r","g","b">>, YBR_FULL, YBR_FULL_422,
     PALETTE_COLOR, <<"H","S","V">>}

\* Every interpretation with one, two and three samples per pixel.
ShapeFiles ==
    {[PixelData |-> px, PhotometricInterpretation |-> Str(ph)] :
        px \in {Array(8, <<1, 2>>, <<0, 200>>),
                Array(8, <<1, 1, 2>>, <<0, 200>>),
                Array(8, <<1, 1, 3>>, <<0, 100, 200>>)},
        ph \in Photometrics}
      \cup {[PixelData |-> Array(8, <<1, 1, 3>>, <<0, 100, 200>>)]}

\* Files without Pixel Data.
BareFiles == {<<>>, [WindowCenter |-> Num(40), WindowWidth |-> Num(80)]}

PixelFiles == WindowFiles \cup RampFiles \cup FrameFiles \cup ShapeFiles \cup BareFiles

ArgSets ==
    {[wl |-> wl, ww |-> ww, enhance |-> e] :
        wl \in {NoArg, Arg(<<>>), Arg(<<"1","2","8">>), Arg(<<"1","0","0">>)},
        ww \in {NoArg, Arg(<<"2","5","6">>), Arg(<<"0">>)},
        e \in {NoArg, Arg(<<"C","L","A","H","E">>)}}

\* --------------------------------------------------- the handlers, staged
Stage(what) == plog' = Append(plog, what)

\* The request ends with the response of the except clause for exc.
Fails(exc) ==
    /\ presp' = [NoResponse EXCEPT !.status = Except(exc)]
    /\ ppc' = "done"

\* A request whose reference passed the root and existence checks: dcmread
\* returns the dataset of the file (lines 373, 528).
PixelRequest(entry, ds, args) ==
    /\ ppc = "idle"
    /\ pentry' = entry
    /\ pds' = ds
    /\ pargs' = args
    /\ parr' = NoArray
    /\ pwin' = NoWindow
    /\ presp' = NoResponse
    /\ plog' = <<"dcmread">>
    /\ ppc' = "read"
    /\ UNCHANGED <<catalogVars, viewerVars, storeVars, layoutVars, sideVars>>

\* image_data, lines 375-377: abort(400) inside the try block.
PixelCheck ==
    /\ ppc = "read" /\ pentry = "image_data"
    /\ Stage("pixeldata")
    /\ IF ~HasAttr(pds, "PixelData")
       THEN Fails("BadRequest")
       ELSE ppc' = "checked" /\ UNCHANGED presp
    /\ UNCHANGED <<pentry, pds, pargs, parr, pwin>>
    /\ UNCHANGED <<catalogVars, viewerVars, storeVars, layoutVars, sideVars>>

\* image_data, lines 379-393: decode and frame selection.
PixelFrame ==
    /\ ppc = "checked"
    /\ Stage("frame")
    /\ parr' = pixel_array_orig(pds)
    /\ ppc' = "framed"
    /\ UNCHANGED <<pentry, pds, pargs, pwin, presp>>
    /\ UNCHANGED <<catalogVars, viewerVars, storeVars, layoutVars, sideVars>>

\* image_data, lines 397-402
PixelRescale ==
    /\ ppc = "framed" /\ pentry = "image_data"
    /\ Stage("rescale")
    /\ parr' = Rescaled(pds, parr)
    /\ ppc' = "rescaled"
    /\ UNCHANGED <<pentry, pds, pargs, pwin, presp>>
    /\ UNCHANGED <<catalogVars, viewerVars, storeVars, layoutVars, sideVars>>

\* image_data, lines 405-421
PixelWindow ==
    /\ ppc = "rescaled"
    /\ Stage("window")
    /\ IF \E a \in {pargs.wl, pargs.ww} : Truthy(a) /\ FloatRaises(a.text)
       THEN Fails("ValueError") /\ UNCHANGED pwin
       ELSE /\ pwin' = EffectiveWindow(pds, pargs, parr)
            /\ ppc' = "window"
            /\ UNCHANGED presp
    /\ UNCHANGED <<pentry, pds, pargs, parr>>
    /\ UNCHANGED <<catalogVars, viewerVars, storeVars, layoutVars, sideVars>>

\* image_data, lines 424-433
PixelTransform ==
    /\ ppc = "window"
    /\ Stage("transform")
    /\ parr' = Windowed(parr, pwin.wl, pwin.ww)
    /\ ppc' = "transformed"
    /\ UNCHANGED <<pentry, pds, pargs, pwin, presp>>
    /\ UNCHANGED <<catalogVars, viewerVars, storeVars, layoutVars, sideVars>>

\* image_data, lines 436-443
PixelEnhance ==
    /\ ppc = "transformed"
    /\ Stage("enhance")
    /\ parr' = Enhanced(pargs, parr)
    /\ ppc' = "enhanced"
    /\ UNCHANGED <<pentry, pds, pargs, pwin, presp>>
    /\ UNCHANGED <<catalogVars, viewerVars, storeVars, layoutVars, sideVars>>

\* image_data, lines 446-501: the dispatch and the response.
PixelDispatch ==
    /\ ppc = "enhanced"
    /\ Stage("dispatch")
    /\ LET made == Dispatch(pds, parr)
       IN  IF made.exc # "none"
           THEN Fails(made.exc)
           ELSE /\ presp' = [status |-> 200, img |-> made.img,
                             wl |-> pwin.wl, ww |-> pwin.ww]
                /\ ppc' = "done"
    /\ UNCHANGED <<pentry, pds, pargs, parr, pwin>>
    /\ UNCHANGED <<catalogVars, viewerVars, storeVars, layoutVars, sideVars>>

\* image_metadata, lines 531-537: ds.pixel_array raises without Pixel Data.
MetaFrame ==
    /\ ppc = "read" /\ pentry = "image_metadata"
    /\ Stage("frame")
    /\ IF ~HasAttr(pds, "PixelData")
       THEN Fails("AttributeError") /\ UNCHANGED parr
       ELSE /\ parr' = pixel_array_for_minmax(pds)
            /\ ppc' = "framed"
            /\ UNCHANGED presp
    /\ UNCHANGED <<pentry, pds, pargs, pwin>>
    /\ UNCHANGED <<catalogVars, viewerVars, storeVars, layoutVars, sideVars>>

\* image_metadata, lines 539-570
MetaWindow ==
    /\ ppc = "framed" /\ pentry = "image_metadata"
    /\ Stage("window")
    /\ pwin' = MetadataWindow(pds, parr)
    /\ presp' = [status |-> 200, img |-> NoImage,
                 wl |-> pwin'.wl, ww |-> pwin'.ww]
    /\ ppc' = "done"
    /\ UNCHANGED <<pentry, pds, pargs, parr>>
    /\ UNCHANGED <<catalogVars, viewerVars, storeVars, layoutVars, sideVars>>

\* GET /dicom/image_data/<path>?wl=&ww=&enhance= (line 354)
ImageDataRequest ==
    /\ ppc = "idle"
    /\ \E ds \in PixelFiles, args \in ArgSets : PixelRequest("image_data", ds, args)

\* GET /dicom/image_metadata/<path> (line 511)
ImageMetadataRequest ==
    /\ ppc = "idle"
    /\ \E ds \in PixelFiles : PixelRequest("image_metadata", ds, NoArgs)

PixelNext ==
    \/ ImageDataRequest
    \/ ImageMetadataRequest
    \/ PixelCheck
    \/ PixelFrame
    \/ PixelRescale
    \/ PixelWindow
    \/ PixelTransform
    \/ PixelEnhance
    \/ PixelDispatch
    \/ MetaFrame
    \/ MetaWindow

PixelSpec == Init /\ [][PixelNext]_vars

\* ------------------------------------------------ claims on the pipeline
\* The request of the given entry point was answered with status 200.
Answered(entry) == ppc = "done" /\ pentry = entry /\ presp.status = 200

\* C14: in image_data a window level the caller supplies is the effective
\* level that is used and reported, and a window width the caller supplies
\* is the effective width.
C14_CallerOverrides ==
    Answered("image_data") =>
        /\ Truthy(pargs.wl) => presp.wl = ParseFloat(pargs.wl.text)
        /\ Truthy(pargs.ww) => presp.ww = ParseFloat(pargs.ww.text)

\* The effective window of image_data for a request without overrides
\* (lines 379-421).
ImageDataWindow(ds) ==
    EffectiveWindow(ds, NoArgs, Rescaled(ds, pixel_array_orig(ds)))

\* C15: the default window image_metadata returns for a file is the
\* effective window image_data uses and reports for the same file when the
\* caller supplies no overrides.
C15_SameDefaultWindow ==
    Answered("image_metadata") =>
        /\ presp.wl = ImageDataWindow(pds).wl
        /\ presp.ww = ImageDataWindow(pds).ww

\* The array the windowing transform of the current request is applied to
\* (lines 379-402).
WindowInput == Rescaled(pds, pixel_array_orig(pds))

\* The transform has run with level 128 and width 256.
Window128_256 ==
    /\ ppc = "transformed"
    /\ pwin = [wl |-> Float(128), ww |-> Float(256)]

EightBit == {Float(n) : n \in 0..255}

Within1(out, v) == out - 1 <= Halved(v) /\ Halved(v) <= out + 1

\* C16 as stated: with level 128 and width 256 the transform maps the 8-bit
\* sample 0 to 0 and 255 to 255, and every other sample v to within 1 of v.
C16_ExtremesPreserved ==
    Window128_256 =>
        \A i \in DOMAIN WindowInput.vals :
            LET v == WindowInput.vals[i]
            IN  v \in EightBit =>
                    /\ v = Float(0) => parr.vals[i] = 0
                    /\ v = Float(255) => parr.vals[i] = 255
                    /\ Within1(parr.vals[i], v)

\* C16, amended: with level 128 and width 256 the transform maps the 8-bit
\* sample 0 to 0 and 255 to 254, and every other sample v to within 1 of v.
C16_ZeroPreservedTopLowered ==
    Window128_256 =>
        \A i \in DOMAIN WindowInput.vals :
            LET v == WindowInput.vals[i]
            IN  v \in EightBit =>
                    /\ v = Float(0) => parr.vals[i] = 0
                    /\ v = Float(255) => parr.vals[i] = 254
                    /\ Within1(parr.vals[i], v)

C16_Witness ==
    /\ Window128_256
    /\ WindowInput.vals = <<Float(255)>>
    /\ parr.vals = <<254>>

\* C17: when the effective window width is 0 the transform binarizes: every
\* sample greater than or equal to the level becomes 255 and every other
\* sample 0, so the output holds no value other than 0 and 255.
C17_ZeroWidthBinarizes ==
    (ppc = "transformed" /\ pwin.ww = 0) =>
        /\ \A i \in DOMAIN parr.vals :
               parr.vals[i] = IF WindowInput.vals[i] >= pwin.wl THEN 255 ELSE 0
        /\ Range(parr.vals) \subseteq {0, 255}

C17_Witness ==
    /\ ppc = "transformed"
    /\ pwin = [wl |-> Float(100), ww |-> 0]
    /\ WindowInput.vals = <<Float(0), Float(100)>>
    /\ parr.vals = <<0, 255>>

\* The response of image_data (lines 372-508) to a request for a file
\* holding dataset ds.
ImageDataResponse(ds, args) ==
    IF ~HasAttr(ds, "PixelData")
    THEN [NoResponse EXCEPT !.status = Except("BadRequest")]
    ELSE IF \E a \in {args.wl, args.ww} : Truthy(a) /\ FloatRaises(a.text)
    THEN [NoResponse EXCEPT !.status = Except("ValueError")]
    ELSE LET orig == Rescaled(ds, pixel_array_orig(ds))
             win == EffectiveWindow(ds, args, orig)
             made == Dispatch(ds, Enhanced(args, Windowed(orig, win.wl, win.ww)))
         IN  IF made.exc # "none"
             THEN [NoResponse EXCEPT !.status = Except(made.exc)]
             ELSE [status |-> 200, img |-> made.img, wl |-> win.wl, ww |-> win.ww]

\* The response of image_metadata (lines 527-572)
ImageMetadataResponse(ds) ==
    IF ~HasAttr(ds, "PixelData")
    THEN [NoResponse EXCEPT !.status = Except("AttributeError")]
    ELSE LET win == MetadataWindow(ds, pixel_array_for_minmax(ds))
         IN  [status |-> 200, img |-> NoImage, wl |-> win.wl, ww |-> win.ww]

Response(entry, ds, args) ==
    IF entry = "image_data" THEN ImageDataResponse(ds, args)
    ELSE ImageMetadataResponse(ds)

\* The dataset declares more than one frame and its array has them.
DeclaresFrames(ds) ==
    HasAttr(ds, "PixelData") /\ MultiFrame(ds, pixel_array(ds))

\* Two datasets with the same tags and the same frame 0.
AgreeOnFrame0(d1, d2) ==
    /\ DOMAIN d1 = DOMAIN d2
    /\ \A t \in DOMAIN d1 \ {"PixelData"} : d1[t] = d2[t]
    /\ DeclaresFrames(d1) /\ DeclaresFrames(d2)
    /\ pixel_array(d1).shape = pixel_array(d2).shape
    /\ pixel_array(d1).bits = pixel_array(d2).bits
    /\ First(pixel_array(d1)) = First(pixel_array(d2))

\* C18: for a dataset that declares more than one frame and whose array has
\* more than two dimensions, the response of image_data (image, effective
\* level and width) and of image_metadata (default window) is the response
\* for every dataset with the same tags and the same frame 0.
C18_OnlyFrame0 ==
    (ppc = "done" /\ DeclaresFrames(pds)) =>
        \A other \in PixelFiles :
            AgreeOnFrame0(pds, other) => Response(pentry, other, pargs) = presp

C18_Witness ==
    /\ ppc = "done" /\ pentry = "image_data" /\ presp.status = 200
    /\ DeclaresFrames(pds)
    /\ \E other \in PixelFiles :
          /\ other # pds
          /\ AgreeOnFrame0(pds, other)
          /\ Response(pentry, other, pargs) = presp

\* C19: an image_data request for a file without Pixel Data ends with the
\* 400 response, and no frame selection or later stage has run.
C19_NoPixelDataIs400 ==
    (ppc = "done" /\ pentry = "image_data" /\ ~HasAttr(pds, "PixelData")) =>
        /\ presp.status = 400
        /\ Range(plog) \subseteq {"dcmread", "pixeldata"}

\* The shape the interpretation tag of ds requires of the processed array.
ShapeMatches(ds, a) ==
    LET tag == Upper(Get(ds, "PhotometricInterpretation", Str(<<>>)).val)
        three == NDim(a) = 3 /\ LastDim(a) = 3
    IN  IF tag \in {MONOCHROME1, MONOCHROME2, <<>>} THEN NDim(a) = 2
        ELSE IF tag \in {RGB, YBR_FULL_422, YBR_FULL, YBR_ICT, YBR_RCT} THEN three
        ELSE IF tag = PALETTE_COLOR THEN NDim(a) = 2 \/ three
        ELSE NDim(a) = 2 \/ (NDim(a) = 3 /\ LastDim(a) \in {1, 3})

\* C20: in the photometric dispatch of image_data a processed array whose
\* shape does not match what the interpretation tag requires ends the request
\* with the 400 response, and no image is produced.
C20_ShapeMismatchIs400 ==
    (/\ ppc = "done" /\ pentry = "image_data"
     /\ "dispatch" \in Range(plog)
     /\ ~ShapeMatches(pds, parr)) =>
        /\ presp.status = 400
        /\ presp.img = NoImage

\* The interpretation tag the dispatch of the current request looks at
\* (line 447).
PhotometricTag == Upper(Get(pds, "PhotometricInterpretation", Str(<<>>)).val)

\* C21: for MONOCHROME1 the output sample at every position is 255 minus the
\* windowed (and, if requested, enhanced) 8-bit sample at that position; for
\* MONOCHROME2 or an absent or empty tag the output is that sample unchanged.
C21_InversionByTag ==
    Answered("image_data") =>
        /\ PhotometricTag = MONOCHROME1 =>
               presp.img.vals = [i \in DOMAIN parr.vals |-> 255 - parr.vals[i]]
        /\ PhotometricTag \in {MONOCHROME2, <<>>} =>
               presp.img.vals = parr.vals

C21_Witness ==
    /\ Answered("image_data")
    /\ PhotometricTag = MONOCHROME1
    /\ parr.vals = <<0, 255>>
    /\ presp.img.vals = <<255, 0>>

\* ------------------------------------------------ the helpers of db_handler
Returned(v) == [exc |-> "none", val |-> v]

Raised(exc) == [exc |-> exc, val |-> <<>>]

\* int(text) raises ValueError unless the text, whitespace stripped, is an
\* optional sign followed by digits.
IntRaises(text) ==
    LET body == Strip(text)
        digits == IF Len(body) > 0 /\ Head(body) \in {"-", "+"} THEN Tail(body) ELSE body
    IN  Len(digits) = 0 \/ \E i \in DOMAIN digits : digits[i] \notin Digits

ParseInt(text) ==
    LET body == Strip(text)
    IN  IF Head(body) = "-" THEN 0 - ParseDigits(Tail(body), 0)
        ELSE IF Head(body) = "+" THEN ParseDigits(Tail(body), 0)
        ELSE ParseDigits(body, 0)

\* int(x) of one value: the integer, or the exception Python raises.
PyInt(v) ==
    IF v.kind = "num" THEN Returned(v.val)
    ELSE IF v.kind = "float"
         THEN Returned(IF v.val < 0 THEN 0 - ((0 - v.val) \div 2) ELSE v.val \div 2)
    ELSE IF v.kind = "inf" THEN Raised("OverflowError")
    ELSE IF v.kind = "nan" THEN Raised("ValueError")
    ELSE IF v.kind = "str"
         THEN (IF IntRaises(v.val) THEN Raised("ValueError") ELSE Returned(ParseInt(v.val)))
    ELSE Raised("TypeError")

\* db_handler.get_int, line 41: except (ValueError, TypeError): return 0
GetIntExcept(out) ==
    IF out.exc \in {"ValueError", "TypeError"} THEN Returned(0) ELSE out

\* db_handler.get_int, lines 30-42
get_int(value) ==
    GetIntExcept(
        IF value.kind = "None" THEN Returned(0)
        ELSE IF value.kind = "multi"
             THEN (IF Len(value.vals) > 0 THEN PyInt(value.vals[1]) ELSE Returned(0))
             ELSE PyInt(value))

Blank == <<>>

HelperTexts ==
    {Blank, <<"1", "2">>, <<" ", "7", " ">>, <<"-", "3">>, <<"+", "4">>, <<"x">>,
     <<"1", ".", "5">>, <<"-">>, <<"1", " ", "2">>, <<" ">>}

HelperScalars ==
    {NoneVal, InfVal, NanVal}
        \cup {Str(t) : t \in HelperTexts}
        \cup {IntVal(n) : n \in {-12, 0, 7, 120}}
        \cup {FloatVal(h) : h \in {-3, 0, 5, 24}}

\* Scalars, and multi-valued fields of none, one and two elements.
HelperValues ==
    HelperScalars
        \cup {Multi(<<>>)}
        \cup {Multi(<<v>>) : v \in HelperScalars}
        \cup {Multi(<<v, Str(<<"9">>)>>) : v \in HelperScalars}

HelperCall(fn, value) ==
    /\ hfn' = fn
    /\ hval' = value
    /\ hout' = NoOutcome
    /\ hpc' = "called"
    /\ UNCHANGED <<catalogVars, viewerVars, storeVars, layoutVars, pixelVars, watcherVars>>

HelperCalled ==
    /\ hpc = "idle"
    /\ \E fn \in {"get_str", "get_int"}, value \in HelperValues : HelperCall(fn, value)

HelperReturn ==
    /\ hpc = "called"
    /\ hout' = IF hfn = "get_str" THEN Returned(get_str(hval)) ELSE get_int(hval)
    /\ hpc' = "returned"
    /\ UNCHANGED <<hfn, hval>>
    /\ UNCHANGED <<catalogVars, viewerVars, storeVars, layoutVars, pixelVars, watcherVars>>

HelperNext ==
    \/ HelperCalled
    \/ HelperReturn

HelperSpec == Init /\ [][HelperNext]_vars

\* The scalar the conversion looks at: the value, or the first element of a
\* multi-valued field.
FirstScalar(value) ==
    IF value.kind = "multi" /\ Len(value.vals) > 0 THEN value.vals[1] ELSE value

Empty(value) ==
    value.kind = "None" \/ (value.kind = "multi" /\ Len(value.vals) = 0)

\* C22: get_str and get_int never raise; get_str returns the empty string
\* for None and for an empty multi-valued field; get_int returns 0 for None,
\* for an empty multi-valued field and for every scalar or first element
\* that cannot be converted to an integer.
C22_HelpersNeverRaise ==
    hpc = "returned" =>
        /\ hout.exc = "none"
        /\ (hfn = "get_str" /\ Empty(hval)) => hout.val = <<>>
        /\ (hfn = "get_int" /\ Empty(hval)) => hout.val = 0
        /\ (hfn = "get_int" /\ PyInt(FirstScalar(hval)).exc # "none") => hout.val = 0

\* ------------------------------------------- claims on the stored rows
\* C23: every Series row's study_instance_uid field is the
\* study_instance_uid of the Study row it references through study_prkey.
C23_SeriesCarriesStudyUid ==
    \A se \in series : \A st \in study :
        st.study_prkey = se.study_prkey =>
            se.study_instance_uid = st.study_instance_uid

\* C24: a Series row's localizer is the SOPInstanceUID of the image whose
\* ingestion created the row, and no later ingestion changes it.
C24_LocalizerIsFirstImage ==
    [][ /\ \A se \in series :
              \E kept \in series' :
                  /\ kept.series_prkey = se.series_prkey
                  /\ kept.localizer_instance_uid = se.localizer_instance_uid
        /\ \A se \in series' \ series :
              \E w \in Workers :
                  /\ pc[w] = "series_insert"
                  /\ se.series_instance_uid = SeriesKey(Ds(w))
                  /\ se.localizer_instance_uid =
                         get_str(Get(Ds(w), "SOPInstanceUID", NoneVal)) ]_vars

\* A second image of a series has been ingested, and the Series row still
\* names the first.
C24_Witness ==
    \E se \in series : \E im \in image :
        /\ im.series_prkey = se.series_prkey
        /\ im.sop_instance_uid # se.localizer_instance_uid
        /\ \E first \in image :
              /\ first.series_prkey = se.series_prkey
              /\ first.sop_instance_uid = se.localizer_instance_uid

\* C25: in every reachable catalog state every Study row's patient_prkey is
\* the key of a Patient row, every Series row's study_prkey the key of a
\* Study row and every Image row's series_prkey the key of a Series row.
C25_ReferentialIntegrity ==
    /\ \A st \in study : \E p \in patient : p.patient_prkey = st.patient_prkey
    /\ \A se \in series : \E st \in study : st.study_prkey = se.study_prkey
    /\ \A im \in image : \E se \in series : se.series_prkey = im.series_prkey

\* Rows in all four tables, and an ingestion that failed part-way after
\* inserting a row.
C25_Witness ==
    /\ patient # {} /\ study # {} /\ series # {} /\ image # {}
    /\ \E w \in Workers :
          /\ outcome[w] \notin {"none", "ok"}
          /\ inserted[w] > 0

\* C26: every Image row's patient_id is the patient_id of the Patient row
\* reached from it through its Series and that Series' Study.
C26_ImageCarriesPatientId ==
    \A im \in image : \A se \in series : \A st \in study : \A p \in patient :
        (/\ se.series_prkey = im.series_prkey
         /\ st.study_prkey = se.study_prkey
         /\ p.patient_prkey = st.patient_prkey) =>
            im.patient_id = p.patient_id

\* C27: the file handle_store writes lies inside the storage root
\* RECEIVED_DIR, whatever the AccessionNumber and SOPInstanceUID received.
C27_WrittenInsideRoot ==
    \A path \in lwritten : Confined(path)

\* C28: a save_metadata call on a path whose file does not exist ends with
\* the FileNotFoundError of the existence check reaching the caller, and has
\* created no catalog row.
C28_MissingFileError ==
    \A w \in Workers :
        (/\ pc[w] = "done"
         /\ file[w] \in FileIds
         /\ Files[file[w]].disk = "missing") =>
            /\ outcome[w] = "FileNotFoundError"
            /\ inserted[w] = 0

\* C29: image_metadata on a file without Pixel Data and without window tags
\* answers with the fixed defaults default_wl = 127.0 and default_ww = 255.0.
C29_FixedDefaults ==
    (/\ ppc = "done" /\ pentry = "image_metadata"
     /\ ~HasAttr(pds, "PixelData")
     /\ default_wl(pds).kind = "None"
     /\ default_ww(pds).kind = "None") =>
        /\ presp.status = 200
        /\ presp.wl = Float(127)
        /\ presp.ww = Float(255)
\* ---------------------------------------------------------------------
\* The folder watcher (dicom_watcher.py) beside the store handler
\* (dicom_server.py, handle_store lines 61-71).
\*
\* Each store request runs in a thread of its own: os.makedirs, then
\* ds.save_as.  The observer queues one creation event per new directory
\* and per new file and hands them to on_created one after another.
\* ---------------------------------------------------------------------

DirEvent(d) == [is_directory |-> TRUE, name |-> d]

FileEvent(d) == [is_directory |-> FALSE, name |-> d]

watcherOthers == <<catalogVars, viewerVars, storeVars, layoutVars, pixelVars, helperVars>>

\* A C-STORE arrives; its sanitised accession number names folder d.
ServerReceive(r, d) ==
    /\ wreq[r].pc = "idle"
    /\ wreq' = [wreq EXCEPT ![r] = [pc |-> "received", dir |-> d]]
    /\ UNCHANGED <<wdisk, wqueue, wpc, wdone, wruns, watcherOthers>>

\* os.makedirs(study_dir, exist_ok=True): a directory that is new raises a
\* creation event, one that exists raises none.
ServerMakedirs(r) ==
    /\ wreq[r].pc = "received"
    /\ LET d == wreq[r].dir IN
        IF wdisk[d] = "absent"
        THEN /\ wdisk' = [wdisk EXCEPT ![d] = "empty"]
             /\ wqueue' = Append(wqueue, DirEvent(d))
        ELSE UNCHANGED <<wdisk, wqueue>>
    /\ wreq' = [wreq EXCEPT ![r].pc = "made"]
    /\ UNCHANGED <<wpc, wdone, wruns, watcherOthers>>

\* ds.save_as(filepath_absolute): the .dcm file appears in the folder, or
\* the write fails and the handler leaves through its except clause.
ServerSaveAs(r, io) ==
    /\ wreq[r].pc = "made"
    /\ LET d == wreq[r].dir IN
        IF io = "ok"
        THEN /\ wdisk' = [wdisk EXCEPT ![d] = "dcm"]
             /\ wqueue' = Append(wqueue, FileEvent(d))
             /\ wreq' = [wreq EXCEPT ![r].pc = "written"]
        ELSE /\ wreq' = [wreq EXCEPT ![r].pc = "failed"]
             /\ UNCHANGED <<wdisk, wqueue>>
    /\ UNCHANGED <<wpc, wdone, wruns, watcherOthers>>

is_dicom_folder_ready(d) == wdisk[d] = "dcm"

has_been_processed(d) == d \in wdone

\* on_created is entered with the oldest event; an event that is no
\* directory is dropped, a directory is logged and the handler sleeps.
OnCreated ==
    /\ wpc.at = "idle"
    /\ wqueue # <<>>
    /\ LET event == Head(wqueue) IN
        wpc' = IF event.is_directory
               THEN [at |-> "sleeping", folder |-> event.name]
               ELSE wpc
    /\ wqueue' = Tail(wqueue)
    /\ UNCHANGED <<wreq, wdisk, wdone, wruns, watcherOthers>>

\* After time.sleep(3): a folder with a marker is skipped.
OnCreatedProcessedCheck ==
    /\ wpc.at = "sleeping"
    /\ wpc' = IF has_been_processed(wpc.folder)
              THEN [at |-> "idle", folder |-> "none"]
              ELSE [wpc EXCEPT !.at = "listing"]
    /\ UNCHANGED <<wreq, wdisk, wqueue, wdone, wruns, watcherOthers>>

\* is_dicom_folder_ready: with a .dcm file run_segmentation is invoked,
\* without one the folder is skipped with a warning and not looked at again.
OnCreatedReadyCheck ==
    /\ wpc.at = "listing"
    /\ IF is_dicom_folder_ready(wpc.folder)
       THEN /\ wruns' = [wruns EXCEPT ![wpc.folder] = @ + 1]
            /\ wpc' = [wpc EXCEPT !.at = "segmenting"]
       ELSE /\ wpc' = [at |-> "idle", folder |-> "none"]
            /\ UNCHANGED wruns
    /\ UNCHANGED <<wreq, wdisk, wqueue, wdone, watcherOthers>>

\* run_segmentation returns: on success mark_as_processed writes the
\* marker file, on failure nothing is recorded.
OnCreatedSegmented(success) ==
    /\ wpc.at = "segmenting"
    /\ IF success
       THEN /\ wdone' = wdone \cup {wpc.folder}
            /\ wqueue' = Append(wqueue, FileEvent("_processed"))
       ELSE UNCHANGED <<wdone, wqueue>>
    /\ wpc' = [at |-> "idle", folder |-> "none"]
    /\ UNCHANGED <<wreq, wdisk, wruns, watcherOthers>>

ServerArrives == \E r \in Requests, d \in Folders : ServerReceive(r, d)

ServerStep ==
    \/ \E r \in Requests : ServerMakedirs(r)
    \/ \E r \in Requests, io \in {"ok", "OSError"} : ServerSaveAs(r, io)

WatcherStep ==
    \/ OnCreated
    \/ OnCreatedProcessedCheck
    \/ OnCreatedReadyCheck
    \/ \E success \in BOOLEAN : OnCreatedSegmented(success)

WatcherNext ==
    \/ ServerArrives
    \/ ServerStep
    \/ WatcherStep

WatcherSpec == Init /\ [][WatcherNext]_vars

\* Both processes keep running: a store handler that has started finishes,
\* and the observer thread dispatches whatever is queued.
WatcherFairSpec == WatcherSpec /\ WF_vars(ServerStep) /\ WF_vars(WatcherStep)

\* The store handler created folder d and wrote a .dcm file into it.
StoredInto(d) ==
    \E r \in Requests : wreq[r].dir = d /\ wreq[r].pc = "written"

Segmented(d) == wruns[d] > 0

EveryStoredFolderSegmented ==
    \A d \in Folders : StoredInto(d) ~> Segmented(d)

ProcessedNeverSegmentedAgain ==
    [][\A d \in Folders : d \in wdone => wruns'[d] = wruns[d]]_vars

\* C30: every directory the store handler creates under received_dicom and
\* writes a .dcm file into is eventually segmented by the watcher
\* (run_segmentation is invoked on it), whatever the interleaving of the
\* server's directory creation, its file write and the watcher's on_created
\* handling; and once a folder is marked processed it is never segmented
\* again.
C30_StoredFolderSegmentedOnce ==
    /\ EveryStoredFolderSegmented
    /\ ProcessedNeverSegmentedAgain

====
